---- MODULE Spec2Model ----
(***************************************************************************)
(* IR builder and relation graph builder of the TypeSpec -> Drizzle ORM    *)
(* generator.                                                              *)
(*                                                                         *)
(* A string is a sequence of one-character strings, so that endsWith,      *)
(* slice, toLowerCase and the regular expressions of the naming helpers    *)
(* are computed character by character, as the code computes them.         *)
(***************************************************************************)
EXTENDS Integers, Sequences, FiniteSets, TLC

VARIABLES
    tables,   \* the TableDef[] handed to buildRelationGraph
    graph,    \* the RelationGraph returned by the latest call
    threw,    \* TRUE when the latest call ended in a TypeError
    calls,    \* number of calls of buildRelationGraph made so far
    word,     \* the identifier under construction (naming helpers)
    oneName,  \* result of deriveOneRelationName(word), once derived
    program,  \* the TypeSpec program: models and decorator state
    ir,       \* what buildIR(program) returned, once it has run
    heap,     \* the object store: the input and what the calls allocated
    pc,       \* the position of a call that is executed step by step
    code      \* the input and the output of the latest code generator call

vars ==
    <<tables, graph, threw, calls, word, oneName, program, ir, heap, pc,
      code>>

(***************************************************************************)
(* Bounds of the model.                                                    *)
(***************************************************************************)
MaxTables == 2
MaxFields == 3
MaxCalls == 2
MaxWordLen == 4
MaxModels == 2
MaxProps == 2
MaxEntries == 3

(***************************************************************************)
(* Characters and strings.                                                 *)
(***************************************************************************)
UpperLetters ==
    <<"A","B","C","D","E","F","G","H","I","J","K","L","M",
      "N","O","P","Q","R","S","T","U","V","W","X","Y","Z">>

LowerLetters ==
    <<"a","b","c","d","e","f","g","h","i","j","k","l","m",
      "n","o","p","q","r","s","t","u","v","w","x","y","z">>

\* String.prototype.toLowerCase on one character.
toLowerCase(c) ==
    IF \E k \in 1..26 : UpperLetters[k] = c
    THEN LowerLetters[CHOOSE k \in 1..26 : UpperLetters[k] = c]
    ELSE c

\* String.prototype.endsWith.
endsWith(s, suffix) ==
    /\ Len(s) >= Len(suffix)
    /\ SubSeq(s, Len(s) - Len(suffix) + 1, Len(s)) = suffix

\* String.prototype.slice(0, -n).
sliceOff(s, n) ==
    IF Len(s) >= n THEN SubSeq(s, 1, Len(s) - n) ELSE <<>>

(***************************************************************************)
(* Naming helpers.                                                         *)
(***************************************************************************)
\* Faulty variant: the suffix is matched whatever its case.
deriveOneRelationNameAnyCase(fieldName) ==
    IF /\ Len(fieldName) >= 2
       /\ toLowerCase(fieldName[Len(fieldName) - 1]) = "i"
       /\ toLowerCase(fieldName[Len(fieldName)]) = "d"
    THEN sliceOff(fieldName, 2)
    ELSE fieldName

deriveOneRelationName(fieldName) ==
    IF endsWith(fieldName, <<"I", "d">>)
    THEN sliceOff(fieldName, 2)
    ELSE fieldName

\* /[aeiou]y$/.test(word)
matchesVowelY(w) ==
    /\ Len(w) >= 2
    /\ w[Len(w)] = "y"
    /\ w[Len(w) - 1] \in {"a", "e", "i", "o", "u"}

\* /(?:s|sh|ch|x|z)$/.test(word)
matchesSibilant(w) ==
    \/ endsWith(w, <<"s">>)
    \/ endsWith(w, <<"s", "h">>)
    \/ endsWith(w, <<"c", "h">>)
    \/ endsWith(w, <<"x">>)
    \/ endsWith(w, <<"z">>)

pluralize(w) ==
    IF endsWith(w, <<"y">>) /\ ~matchesVowelY(w)
    THEN sliceOff(w, 1) \o <<"i", "e", "s">>
    ELSE IF matchesSibilant(w)
         THEN w \o <<"e", "s">>
         ELSE w \o <<"s">>

\* The value undefined where a name is expected: what reading a key that an
\* object does not have gives.  It is no sequence of characters.
undefined == <<"undefined">>

\* name[0] is undefined for the empty string: undefined.toLowerCase() is a
\* TypeError; so is name[0] when name itself is undefined.
toTableVariableNameThrows(name) == name = undefined \/ Len(name) = 0

toTableVariableName(name) ==
    pluralize(<<toLowerCase(name[1])>> \o SubSeq(name, 2, Len(name)))

(***************************************************************************)
(* TableDef, FieldDef and the relations.                                   *)
(* field.references is <<>> when absent, else <<[tableName, fieldName]>>.  *)
(***************************************************************************)
hasReferences(field) == field.references # <<>>

\* Faulty variant: the relation is described from the target's side.
OneRelationFromTarget(table, field) ==
    [kind      |-> "one",
     name      |-> deriveOneRelationName(field.name),
     fromTable |-> field.references[1].tableName,
     fromField |-> field.references[1].fieldName,
     toTable   |-> table.name,
     toField   |-> field.name,
     optional  |-> field.nullable]

OneRelation(table, field) ==
    [kind      |-> "one",
     name      |-> deriveOneRelationName(field.name),
     fromTable |-> table.name,
     fromField |-> field.name,
     toTable   |-> field.references[1].tableName,
     toField   |-> field.references[1].fieldName,
     optional  |-> field.nullable]

ManyRelation(table) ==
    [kind  |-> "many",
     name  |-> toTableVariableName(table.name),
     table |-> table.name]

\* Faulty variant: toTable is taken from the same side as fromTable.
ManyThroughRelationSameSide(table, fieldA, fieldB) ==
    [kind      |-> "many-through",
     name      |-> toTableVariableName(fieldB.references[1].tableName),
     fromTable |-> fieldA.references[1].tableName,
     fromField |-> fieldA.references[1].fieldName,
     toTable   |-> fieldA.references[1].tableName,
     toField   |-> fieldB.references[1].fieldName,
     junction  |-> [table     |-> table.name,
                    fromField |-> fieldA.name,
                    toField   |-> fieldB.name]]

\* Faulty variant: the referenced fields of the two sides are exchanged.
ManyThroughRelationCrossed(table, fieldA, fieldB) ==
    [kind      |-> "many-through",
     name      |-> toTableVariableName(fieldB.references[1].tableName),
     fromTable |-> fieldA.references[1].tableName,
     fromField |-> fieldB.references[1].fieldName,
     toTable   |-> fieldB.references[1].tableName,
     toField   |-> fieldA.references[1].fieldName,
     junction  |-> [table     |-> table.name,
                    fromField |-> fieldA.name,
                    toField   |-> fieldB.name]]

ManyThroughRelation(table, fieldA, fieldB) ==
    [kind      |-> "many-through",
     name      |-> toTableVariableName(fieldB.references[1].tableName),
     fromTable |-> fieldA.references[1].tableName,
     fromField |-> fieldA.references[1].fieldName,
     toTable   |-> fieldB.references[1].tableName,
     toField   |-> fieldB.references[1].fieldName,
     junction  |-> [table     |-> table.name,
                    fromField |-> fieldA.name,
                    toField   |-> fieldB.name]]

(***************************************************************************)
(* buildRelationGraph.  A run is a record [graph, threw]; once a step has  *)
(* thrown, the remaining steps are not executed.                           *)
(***************************************************************************)
TableNames(ts) == {ts[i].name : i \in 1..Len(ts)}

\* Faulty variant: a list is allocated only for the tables that hold a reference.
InitGraphLazy(ts) ==
    [n \in {ts[i].name : i \in {k \in 1..Len(ts) :
                \E j \in 1..Len(ts[k].fields) :
                    ts[k].fields[j].references # <<>>}} |-> <<>>]

\* graph.set(table.name, []) for every table.
InitGraph(ts) == [n \in TableNames(ts) |-> <<>>]

\* Faulty variant: a relation is dropped when the list already holds its name.
PushUnique(g, key, rel) ==
    IF key \in DOMAIN g /\ \A k \in 1..Len(g[key]) : g[key][k].name # rel.name
    THEN [g EXCEPT ![key] = Append(@, rel)]
    ELSE g

\* graph.get(key)?.push(rel)
Push(g, key, rel) ==
    IF key \in DOMAIN g THEN [g EXCEPT ![key] = Append(@, rel)] ELSE g

\* Faulty variant: the reverse relation is pushed for junction holders as well.
WantsManyReverseAlways(table) == TRUE

\* if (!table.isJunction)
WantsManyReverse(table) == ~table.isJunction

\* One field of step 1.
Pass1Field(run, table, field) ==
    IF run.threw \/ ~hasReferences(field) THEN run
    ELSE LET g1 == Push(run.graph, table.name, OneRelation(table, field))
             target == field.references[1].tableName
         IN  IF WantsManyReverse(table) /\ target \in DOMAIN g1
             THEN IF toTableVariableNameThrows(table.name)
                  THEN [graph |-> g1, threw |-> TRUE]
                  ELSE [graph |-> Push(g1, target, ManyRelation(table)),
                        threw |-> FALSE]
             ELSE [graph |-> g1, threw |-> FALSE]

RECURSIVE Pass1Fields(_, _, _)
Pass1Fields(run, table, j) ==
    IF j > Len(table.fields) THEN run
    ELSE LET next == Pass1Field(run, table, table.fields[j])
         IN  IF next.threw THEN next ELSE Pass1Fields(next, table, j + 1)

RECURSIVE Pass1(_, _, _)
Pass1(run, ts, i) ==
    IF i > Len(ts) THEN run
    ELSE LET next == Pass1Fields(run, ts[i], 1)
         IN  IF next.threw THEN next ELSE Pass1(next, ts, i + 1)

\* table.fields.filter((f) => f.references)
RECURSIVE RefFields(_)
RefFields(fields) ==
    IF fields = <<>> THEN <<>>
    ELSE IF hasReferences(Head(fields))
         THEN <<Head(fields)>> \o RefFields(Tail(fields))
         ELSE RefFields(Tail(fields))

\* Faulty variant: a junction with two or more reference fields is accepted.
IsPairAtLeast(refFields) == Len(refFields) >= 2

\* refFields.length !== 2 skips the junction.
IsPair(refFields) == Len(refFields) = 2

\* One table of step 2.
Pass2Table(run, table) ==
    IF run.threw \/ ~table.isJunction THEN run
    ELSE LET refFields == RefFields(table.fields) IN
         IF ~IsPair(refFields) THEN run
         ELSE LET fieldA == refFields[1]
                  fieldB == refFields[2]
                  a == fieldA.references[1].tableName
                  b == fieldB.references[1].tableName
              IN  IF a \in DOMAIN run.graph /\ toTableVariableNameThrows(b)
                  THEN [graph |-> run.graph, threw |-> TRUE]
                  ELSE LET g1 == Push(run.graph, a,
                                      ManyThroughRelation(table, fieldA, fieldB))
                       IN  IF b \in DOMAIN g1 /\ toTableVariableNameThrows(a)
                           THEN [graph |-> g1, threw |-> TRUE]
                           ELSE [graph |-> Push(g1, b,
                                     ManyThroughRelation(table, fieldB, fieldA)),
                                 threw |-> FALSE]

RECURSIVE Pass2(_, _, _)
Pass2(run, ts, i) ==
    IF i > Len(ts) THEN run
    ELSE LET next == Pass2Table(run, ts[i])
         IN  IF next.threw THEN next ELSE Pass2(next, ts, i + 1)

\* Faulty variant: the junction step runs before the reference step.
buildRelationGraphThroughFirst(ts) ==
    Pass1(Pass2([graph |-> InitGraph(ts), threw |-> FALSE], ts, 1), ts, 1)

buildRelationGraph(ts) ==
    Pass2(Pass1([graph |-> InitGraph(ts), threw |-> FALSE], ts, 1), ts, 1)

(***************************************************************************)
(* The TypeSpec program as buildIR sees it.  A model is known by its       *)
(* position in program.models and a property by <<model, position>>.  The  *)
(* @table state map, the one buildIR iterates, is kept as the sequence of  *)
(* its [key, value] entries, in insertion order; a state map that is only  *)
(* looked up is kept as a function of its keys; a state set as the set of  *)
(* its members.  A value that may be undefined (a missing map entry, an    *)
(* optional key of a record) is <<>> when undefined and <<v>> when it is v.*)
(***************************************************************************)
\* Map.prototype.has
MapHas(map, key) == \E i \in 1..Len(map) : map[i].key = key

\* Map.prototype.get
MapGet(map, key) ==
    IF MapHas(map, key)
    THEN <<map[CHOOSE i \in 1..Len(map) : map[i].key = key].value>>
    ELSE <<>>

\* Map.prototype.set: a key already present keeps its place.
MapSet(map, key, value) ==
    IF MapHas(map, key)
    THEN [i \in 1..Len(map) |->
             IF map[i].key = key THEN [key |-> key, value |-> value]
             ELSE map[i]]
    ELSE Append(map, [key |-> key, value |-> value])

\* The same three on a map that is only looked up.
NoEntries == [key \in {} |-> <<>>]

StateHas(map, key) == key \in DOMAIN map

StateGet(map, key) == IF key \in DOMAIN map THEN <<map[key]>> ELSE <<>>

StateSet(map, key, value) ==
    [k \in DOMAIN map \cup {key} |-> IF k = key THEN value ELSE map[k]]

\* createMockProgram(): every state map and state set is empty.
EmptyProgram ==
    [models          |-> <<>>,
     table           |-> <<>>,
     primaryKey      |-> NoEntries,
     pk              |-> {},
     references      |-> NoEntries,
     junction        |-> {},
     uuid            |-> NoEntries,
     createdAt       |-> {},
     updatedAt       |-> {},
     unique          |-> {},
     compositeUnique |-> NoEntries,
     check           |-> NoEntries,
     indexDef        |-> NoEntries,
     foreignKeyDef   |-> NoEntries,
     minValue        |-> NoEntries,
     maxValue        |-> NoEntries,
     visibility      |-> NoEntries,
     columnVisibility |-> NoEntries]

\* The value of ir before buildIR has run.
NotBuilt == [built |-> FALSE, tables |-> <<>>, enums |-> <<>>]

\* str.replace(/[A-Z]/g, (letter) => `_${letter.toLowerCase()}`)
RECURSIVE toSnakeCase(_)
toSnakeCase(str) ==
    IF str = <<>> THEN <<>>
    ELSE IF \E k \in 1..26 : UpperLetters[k] = Head(str)
         THEN <<"_", toLowerCase(Head(str))>> \o toSnakeCase(Tail(str))
         ELSE <<Head(str)>> \o toSnakeCase(Tail(str))

\* enumName.replace(/Enum$/, "")
stripEnumSuffix(enumName) ==
    IF endsWith(enumName, <<"E", "n", "u", "m">>)
    THEN sliceOff(enumName, 4)
    ELSE enumName

\* String(value) of a value [typeof, value]: the decimal digits of a number
\* 0..99, true or false for a boolean, and a string itself.
Digits == <<"0", "1", "2", "3", "4", "5", "6", "7", "8", "9">>

String(value) ==
    IF value.typeof = "number"
    THEN IF value.value < 10 THEN <<Digits[value.value + 1]>>
         ELSE <<Digits[(value.value \div 10) + 1],
                Digits[(value.value % 10) + 1]>>
    ELSE IF value.typeof = "boolean"
         THEN IF value.value THEN <<"t", "r", "u", "e">>
              ELSE <<"f", "a", "l", "s", "e">>
         ELSE value.value

\* A scalar is the chain of names scalar.name, scalar.baseScalar.name, ...;
\* resolveScalarType(scalar) is resolveScalarType(chain, 1).
RECURSIVE resolveScalarType(_, _)
resolveScalarType(chain, i) ==
    IF i > Len(chain) THEN [kind |-> "text"]
    ELSE IF chain[i] = "string" THEN [kind |-> "text"]
    ELSE IF chain[i] = "int32" THEN [kind |-> "integer"]
    ELSE IF chain[i] = "int64" THEN [kind |-> "bigint"]
    ELSE IF chain[i] = "float32" THEN [kind |-> "real"]
    ELSE IF chain[i] = "float64" THEN [kind |-> "doublePrecision"]
    ELSE IF chain[i] = "boolean" THEN [kind |-> "boolean"]
    ELSE IF chain[i] = "utcDateTime" THEN [kind |-> "timestamp"]
    ELSE resolveScalarType(chain, i + 1)

\* [...enumType.members.values()].map((m) => m.value !== undefined ? ... )
memberValues(members) ==
    [k \in 1..Len(members) |->
        IF members[k].value # <<>> THEN String(members[k].value[1])
        ELSE members[k].name]

\* enumType.name.charAt(0).toLowerCase() + enumType.name.slice(1) + "Enum"
deriveEnumName(name) ==
    (IF name = <<>> THEN <<>>
     ELSE <<toLowerCase(name[1])>> \o SubSeq(name, 2, Len(name)))
    \o <<"E", "n", "u", "m">>

\* Faulty variant: the declared type is looked at before the uuid spec.
resolveFieldTypeDeclaredFirst(prop, uuidMeta) ==
    IF prop.type.kind = "Scalar" THEN resolveScalarType(prop.type.chain, 1)
    ELSE IF prop.type.kind = "Enum"
         THEN [kind     |-> "enum",
               enumName |-> deriveEnumName(prop.type.name),
               values   |-> memberValues(prop.type.members)]
         ELSE IF uuidMeta # <<>>
              THEN [kind |-> "uuid", encoding |-> uuidMeta[1].encoding]
              ELSE [kind |-> "text"]

resolveFieldType(prop, uuidMeta) ==
    IF uuidMeta # <<>>
    THEN [kind |-> "uuid", encoding |-> uuidMeta[1].encoding]
    ELSE IF prop.type.kind = "Scalar"
         THEN resolveScalarType(prop.type.chain, 1)
         ELSE IF prop.type.kind = "Enum"
              THEN [kind     |-> "enum",
                    enumName |-> deriveEnumName(prop.type.name),
                    values   |-> memberValues(prop.type.members)]
              ELSE [kind |-> "text"]

\* prop.default is <<>> or <<d>>, d a record [shape, value, name] where shape
\* tells which branch of extractDefaultValue the value takes: "null", an
\* object with a value key ("literal"), an "EnumMember", a "primitive", or
\* any "other" object.
extractDefaultValue(d) ==
    IF d.shape = "null" THEN <<>>
    ELSE IF d.shape = "literal" THEN d.value
    ELSE IF d.shape = "EnumMember"
         THEN IF d.value # <<>> THEN d.value ELSE <<d.name>>
    ELSE IF d.shape = "primitive" THEN d.value
    ELSE <<>>

\* Faulty variant: a bound of 0 is taken as not set.
fieldConstraintsTruthy(isUnique, checkExpr, minVal, maxVal) ==
    LET minSet == minVal # <<>> /\ minVal[1] # 0
        maxSet == maxVal # <<>> /\ maxVal[1] # 0
    IN  IF \/ isUnique
           \/ (checkExpr # <<>> /\ checkExpr[1] # <<>>)
           \/ minSet
           \/ maxSet
        THEN <<[unique   |-> IF isUnique THEN <<TRUE>> ELSE <<>>,
                check    |-> IF checkExpr # <<>> /\ checkExpr[1] # <<>>
                             THEN checkExpr ELSE <<>>,
                minValue |-> IF minSet THEN minVal ELSE <<>>,
                maxValue |-> IF maxSet THEN maxVal ELSE <<>>]>>
        ELSE <<>>

\* field.constraints: <<>> when none of the four is set, else one record of
\* the sub-fields, each <<>> when not set.
fieldConstraints(isUnique, checkExpr, minVal, maxVal) ==
    IF \/ isUnique
       \/ (checkExpr # <<>> /\ checkExpr[1] # <<>>)
       \/ minVal # <<>>
       \/ maxVal # <<>>
    THEN <<[unique   |-> IF isUnique THEN <<TRUE>> ELSE <<>>,
            check    |-> IF checkExpr # <<>> /\ checkExpr[1] # <<>>
                         THEN checkExpr ELSE <<>>,
            minValue |-> minVal,
            maxValue |-> maxVal]>>
    ELSE <<>>

\* Faulty variant: a reference is kept whatever the owning model carries.
fieldReferencesUnresolved(prog, refTarget) ==
    IF refTarget # <<>> /\ refTarget[1].model # <<>>
    THEN <<[tableName |->
                IF MapHas(prog.table, refTarget[1].model[1])
                THEN MapGet(prog.table, refTarget[1].model[1])[1].name
                ELSE <<>>,
            fieldName |-> refTarget[1].name]>>
    ELSE <<>>

\* field.references: set when the referenced property has an owning model
\* and that model is a key of the @table state.
fieldReferences(prog, refTarget) ==
    IF /\ refTarget # <<>>
       /\ refTarget[1].model # <<>>
       /\ MapHas(prog.table, refTarget[1].model[1])
    THEN <<[tableName |-> MapGet(prog.table, refTarget[1].model[1])[1].name,
            fieldName |-> refTarget[1].name]>>
    ELSE <<>>

\* The FieldDef of the property at position j of model m.
buildField(prog, m, j) ==
    LET modelProp == prog.models[m].properties[j]
        id == <<m, j>>
        uuidMeta == StateGet(prog.uuid, id)
        vis == StateGet(prog.columnVisibility, id)
        defaultVal == IF modelProp.default # <<>>
                      THEN extractDefaultValue(modelProp.default[1])
                      ELSE <<>>
    IN  [name         |-> modelProp.name,
         columnName   |-> toSnakeCase(modelProp.name),
         type         |-> resolveFieldType(modelProp, uuidMeta),
         nullable     |-> modelProp.optional,
         createdAt    |-> id \in prog.createdAt,
         updatedAt    |-> id \in prog.updatedAt,
         uuid         |-> uuidMeta,
         references   |-> fieldReferences(prog, StateGet(prog.references, id)),
         constraints  |-> fieldConstraints(id \in prog.unique,
                                           StateGet(prog.check, id),
                                           StateGet(prog.minValue, id),
                                           StateGet(prog.maxValue, id)),
         visibility   |-> IF vis # <<>> /\ vis[1] # <<>> THEN vis ELSE <<>>,
         defaultValue |-> defaultVal]

\* Faulty variant: an enum is registered each time a field uses it.
collectEnumAlways(enums, fieldType) ==
    IF fieldType.kind = "enum"
    THEN Append(enums,
           [name    |-> fieldType.enumName,
            sqlName |-> toSnakeCase(stripEnumSuffix(fieldType.enumName)),
            values  |-> fieldType.values])
    ELSE enums

\* seenEnums holds the names of the enums pushed so far.
collectEnum(enums, fieldType) ==
    IF /\ fieldType.kind = "enum"
       /\ \A k \in 1..Len(enums) : enums[k].name # fieldType.enumName
    THEN Append(enums,
           [name    |-> fieldType.enumName,
            sqlName |-> toSnakeCase(stripEnumSuffix(fieldType.enumName)),
            values  |-> fieldType.values])
    ELSE enums

\* for (const [propName, prop] of model.properties), from property j on:
\* acc is [fields, pkColumns, enums].
RECURSIVE buildFields(_, _, _, _)
buildFields(prog, m, j, acc) ==
    IF j > Len(prog.models[m].properties) THEN acc
    ELSE LET field == buildField(prog, m, j)
             next == [fields    |-> Append(acc.fields, field),
                      pkColumns |-> IF <<m, j>> \in prog.pk
                                    THEN Append(acc.pkColumns, field.name)
                                    ELSE acc.pkColumns,
                      enums     |-> collectEnum(acc.enums, field.type)]
         IN  buildFields(prog, m, j + 1, next)

\* Faulty variant: a single-column key counts as composite.
isCompositeNonEmpty(pkColumns) == Len(pkColumns) >= 1

\* const isComposite = pkColumns.length > 1
isComposite(pkColumns) == Len(pkColumns) > 1

\* columns.map((c) => c.name)
columnNames(columns) == [k \in 1..Len(columns) |-> columns[k].name]

\* The model-level lists of a model: <<>> when the map has no entry.
modelList(map, m) == IF StateHas(map, m) THEN map[m] ELSE <<>>

buildForeignKey(prog, fk) ==
    LET foreignModel == IF fk.foreignColumns # <<>>
                        THEN fk.foreignColumns[1].model ELSE <<>>
        foreignTableMeta == IF foreignModel # <<>>
                            THEN MapGet(prog.table, foreignModel[1]) ELSE <<>>
    IN  [name           |-> fk.name,
         columns        |-> columnNames(fk.columns),
         foreignTable   |-> IF foreignTableMeta # <<>>
                            THEN foreignTableMeta[1].name ELSE <<>>,
         foreignColumns |-> columnNames(fk.foreignColumns)]

\* Faulty variant: a model without @primaryKey state is emitted as well.
emitsModelWithoutPk(prog, m) == prog.models[m].kind = "Model"

\* if (model.kind !== "Model") continue; if (!pkMeta) continue;
emitsModel(prog, m) ==
    prog.models[m].kind = "Model" /\ StateHas(prog.primaryKey, m)

\* One entry [target, meta] of the @table state; out is [tables, enums].
buildTable(prog, entry, out) ==
    LET m == entry.key
        tableName == IF StateHas(prog.primaryKey, m)
                     THEN StateGet(prog.primaryKey, m)[1].tableName ELSE <<>>
        built == buildFields(prog, m, 1,
                   [fields |-> <<>>, pkColumns |-> <<>>, enums |-> out.enums])
        uniques == modelList(prog.compositeUnique, m)
        indexDefs == modelList(prog.indexDef, m)
        fkDefs == modelList(prog.foreignKeyDef, m)
    IN  [tables |-> Append(out.tables,
           [name       |-> entry.value.name,
            service    |-> entry.value.service,
            tableName  |-> tableName,
            primaryKey |-> [tableName   |-> tableName,
                            columns     |-> built.pkColumns,
                            isComposite |-> isComposite(built.pkColumns)],
            fields     |-> built.fields,
            foreignKeys |-> [k \in 1..Len(fkDefs) |->
                                buildForeignKey(prog, fkDefs[k])],
            isJunction |-> m \in prog.junction,
            indexes    |-> [k \in 1..Len(indexDefs) |->
                               [name    |-> indexDefs[k].name,
                                columns |-> columnNames(indexDefs[k].columns),
                                unique  |-> indexDefs[k].unique]],
            uniqueConstraints |-> [k \in 1..Len(uniques) |->
                               [name    |-> uniques[k].name,
                                columns |-> columnNames(uniques[k].columns)]]]),
         enums |-> built.enums]

\* for (const [target, meta] of tableState), from entry i on.
RECURSIVE buildTables(_, _, _)
buildTables(prog, i, out) ==
    IF i > Len(prog.table) THEN out
    ELSE IF emitsModel(prog, prog.table[i].key)
         THEN buildTables(prog, i + 1, buildTable(prog, prog.table[i], out))
         ELSE buildTables(prog, i + 1, out)

buildIR(prog) == buildTables(prog, 1, [tables |-> <<>>, enums |-> <<>>])

(***************************************************************************)
(* The inputs.  Table names, reference targets and characters are drawn    *)
(* from small pools, MaxFields bounds the number of fields of the whole    *)
(* input, and the field at position j of a table is named                  *)
(* FieldNamePool[j] (a model's property names are distinct) and is         *)
(* nullable at even positions.                                             *)
(***************************************************************************)
TableNamePool == << <<"A">>, <<"B">>, <<>> >>

RefTargetPool == << <<"A">>, <<"B">> >>

FieldNamePool ==
    << <<"a", "I", "d">>, <<"a">>, <<"b", "I", "d">>, <<"b">>, <<"c">> >>

Chars == {"a", "y", "s", "h", "c", "x", "z", "d", "A", "I", "D"}

NotDerived == <<"undefined">>

NoGraph == [n \in {} |-> <<>>]

\* No object has been returned to a caller yet.
NoHeap ==
    [objects |-> <<>>, tables |-> 0, program |-> 0, size |-> 0,
     calls |-> <<>>, touched |-> {}]

\* No code has been generated yet.
NoCode == [generated |-> FALSE, fn |-> "none"]

\* No call is being executed step by step.
Idle == [fn |-> "none"]

RECURSIVE CountFields(_)
CountFields(ts) ==
    IF ts = <<>> THEN 0 ELSE Len(Head(ts).fields) + CountFields(Tail(ts))

NewField(j, refs) ==
    [name       |-> FieldNamePool[j],
     nullable   |-> (j % 2 = 0),
     references |-> refs]

\* The referenced field: id in table A, key in any other table.
RefFieldOf(target) ==
    IF target = <<"A">> THEN <<"i", "d">> ELSE <<"k", "e", "y">>

RefTo(target) == <<[tableName |-> target, fieldName |-> RefFieldOf(target)]>>

Init ==
    /\ tables = <<>>
    /\ graph = NoGraph
    /\ threw = FALSE
    /\ calls = 0
    /\ word = <<>>
    /\ oneName = NotDerived
    /\ program = EmptyProgram
    /\ ir = NotBuilt
    /\ heap = NoHeap
    /\ pc = Idle
    /\ code = NoCode

(***************************************************************************)
(* The caller assembles the TableDef[]: a table is appended, a field is    *)
(* pushed on the fields of the last table.                                 *)
(***************************************************************************)
AddTable(name, isJunction) ==
    /\ calls = 0
    /\ Len(tables) < MaxTables
    /\ tables' = Append(tables,
                   [name |-> name, isJunction |-> isJunction, fields |-> <<>>])
    /\ UNCHANGED <<graph, threw, calls, word, oneName, program, ir, heap, pc, code>>

AddField(refs) ==
    /\ calls = 0
    /\ tables # <<>>
    /\ CountFields(tables) < MaxFields
    /\ Len(tables[Len(tables)].fields) < Len(FieldNamePool)
    /\ LET last == tables[Len(tables)]
           field == NewField(Len(last.fields) + 1, refs)
       IN  tables' = [tables EXCEPT ![Len(tables)].fields = Append(@, field)]
    /\ UNCHANGED <<graph, threw, calls, word, oneName, program, ir, heap, pc, code>>

\* One call of buildRelationGraph(tables): it returns a fresh graph or
\* throws; the input is left as it is.
Call ==
    /\ calls < MaxCalls
    /\ LET run == buildRelationGraph(tables)
       IN  /\ threw' = run.threw
           /\ graph' = IF run.threw THEN NoGraph ELSE run.graph
    /\ calls' = calls + 1
    /\ UNCHANGED <<tables, word, oneName, program, ir, heap, pc, code>>

Next ==
    \/ \E n \in 1..Len(TableNamePool), isJunction \in BOOLEAN :
           AddTable(TableNamePool[n], isJunction)
    \/ \E n \in 1..Len(RefTargetPool) : AddField(RefTo(RefTargetPool[n]))
    \/ AddField(<<>>)
    \/ Call

Spec == Init /\ [][Next]_vars

(***************************************************************************)
(* The naming helpers on arbitrary identifiers: an identifier is typed     *)
(* character by character, deriveOneRelationName is applied to it, and it  *)
(* is then used as a table name and as a field name in a small schema      *)
(* (a table, the table it references, and a junction between the two).     *)
(***************************************************************************)
Hub == <<"H", "u", "b">>

Link == <<"L", "i", "n", "k">>

NamedTables(w) ==
    << [name |-> w, isJunction |-> FALSE,
        fields |-> << [name |-> w, nullable |-> FALSE,
                       references |-> RefTo(Hub)] >>],
       [name |-> Hub, isJunction |-> FALSE, fields |-> <<>>],
       [name |-> Link, isJunction |-> TRUE,
        fields |-> << [name |-> <<"h", "u", "b", "I", "d">>, nullable |-> FALSE,
                       references |-> RefTo(Hub)],
                      [name |-> <<"w", "I", "d">>, nullable |-> FALSE,
                       references |-> RefTo(w)] >>] >>

TypeChar(c) ==
    /\ oneName = NotDerived
    /\ tables = <<>>
    /\ calls = 0
    /\ Len(word) < MaxWordLen
    /\ word' = Append(word, c)
    /\ UNCHANGED <<tables, graph, threw, calls, oneName, program, ir, heap, pc, code>>

Derive ==
    /\ oneName = NotDerived
    /\ oneName' = deriveOneRelationName(word)
    /\ UNCHANGED <<tables, graph, threw, calls, word, program, ir, heap, pc, code>>

NameTable ==
    /\ oneName # NotDerived
    /\ tables = <<>>
    /\ tables' = NamedTables(word)
    /\ UNCHANGED <<graph, threw, calls, word, oneName, program, ir, heap, pc, code>>

CallNamed ==
    /\ tables # <<>>
    /\ Call

NextNames ==
    \/ \E c \in Chars : TypeChar(c)
    \/ Derive
    \/ NameTable
    \/ CallNamed

SpecNames == Init /\ [][NextNames]_vars

(***************************************************************************)
(* The bookstore input of the tests: nine tables, handed over in the order *)
(* of the fixture.  Only what buildRelationGraph reads is kept of a field: *)
(* its name, nullable and its reference.  The fixture writes a reference   *)
(* as { entityName, fieldName }: the object has no tableName key, and      *)
(* buildRelationGraph, which reads ref.tableName, gets undefined.          *)
(***************************************************************************)
Column(name, nullable, references) ==
    [name |-> name, nullable |-> nullable, references |-> references]

RefField(entityName, fieldName) ==
    <<[entityName |-> entityName,
       fieldName  |-> fieldName,
       tableName  |-> undefined]>>

author ==
    [name |-> <<"A", "u", "t", "h", "o", "r">>,
     isJunction |-> FALSE,
     fields |-> <<
        Column(<<"a", "u", "t", "h", "o", "r", "I", "d">>, FALSE, <<>>),
        Column(<<"n", "a", "m", "e">>, FALSE, <<>>),
        Column(<<"b", "i", "o">>, TRUE, <<>>),
        Column(<<"b", "i", "r", "t", "h", "Y", "e", "a", "r">>, TRUE, <<>>),
        Column(<<"n", "a", "t", "i", "o", "n", "a", "l", "i", "t", "y">>,
            TRUE, <<>>),
        Column(<<"c", "r", "e", "a", "t", "e", "d", "A", "t">>, FALSE, <<>>),
        Column(<<"u", "p", "d", "a", "t", "e", "d", "A", "t">>, FALSE,
            <<>>) >>]

book ==
    [name |-> <<"B", "o", "o", "k">>,
     isJunction |-> FALSE,
     fields |-> <<
        Column(<<"b", "o", "o", "k", "I", "d">>, FALSE, <<>>),
        Column(<<"a", "u", "t", "h", "o", "r", "I", "d">>, FALSE,
               RefField(<<"A", "u", "t", "h", "o", "r">>, <<"a", "u", "t",
                   "h", "o", "r", "I", "d">>)),
        Column(<<"t", "i", "t", "l", "e">>, FALSE, <<>>),
        Column(<<"o", "r", "i", "g", "i", "n", "a", "l", "L", "a", "n", "g",
            "u", "a", "g", "e">>, FALSE, <<>>),
        Column(<<"p", "u", "b", "l", "i", "c", "a", "t", "i", "o", "n", "Y",
            "e", "a", "r">>, FALSE, <<>>),
        Column(<<"i", "s", "b", "n">>, TRUE, <<>>),
        Column(<<"p", "a", "g", "e", "C", "o", "u", "n", "t">>, TRUE, <<>>),
        Column(<<"c", "r", "e", "a", "t", "e", "d", "A", "t">>, FALSE, <<>>),
        Column(<<"u", "p", "d", "a", "t", "e", "d", "A", "t">>, FALSE,
            <<>>) >>]

genre ==
    [name |-> <<"G", "e", "n", "r", "e">>,
     isJunction |-> FALSE,
     fields |-> <<
        Column(<<"g", "e", "n", "r", "e", "I", "d">>, FALSE, <<>>),
        Column(<<"n", "a", "m", "e">>, FALSE, <<>>),
        Column(<<"d", "e", "s", "c", "r", "i", "p", "t", "i", "o", "n">>,
            TRUE, <<>>),
        Column(<<"c", "r", "e", "a", "t", "e", "d", "A", "t">>, FALSE, <<>>),
        Column(<<"u", "p", "d", "a", "t", "e", "d", "A", "t">>, FALSE,
            <<>>) >>]

bookGenre ==
    [name |-> <<"B", "o", "o", "k", "G", "e", "n", "r", "e">>,
     isJunction |-> TRUE,
     fields |-> <<
        Column(<<"b", "o", "o", "k", "I", "d">>, FALSE,
               RefField(<<"B", "o", "o", "k">>, <<"b", "o", "o", "k", "I",
                   "d">>)),
        Column(<<"g", "e", "n", "r", "e", "I", "d">>, FALSE,
               RefField(<<"G", "e", "n", "r", "e">>, <<"g", "e", "n", "r",
                   "e", "I", "d">>)) >>]

bookTag ==
    [name |-> <<"B", "o", "o", "k", "T", "a", "g">>,
     isJunction |-> FALSE,
     fields |-> <<
        Column(<<"b", "o", "o", "k", "T", "a", "g", "I", "d">>, FALSE, <<>>),
        Column(<<"b", "o", "o", "k", "I", "d">>, FALSE,
               RefField(<<"B", "o", "o", "k">>, <<"b", "o", "o", "k", "I",
                   "d">>)),
        Column(<<"n", "a", "m", "e">>, FALSE, <<>>),
        Column(<<"c", "r", "e", "a", "t", "e", "d", "A", "t">>, FALSE, <<>>),
        Column(<<"u", "p", "d", "a", "t", "e", "d", "A", "t">>, FALSE,
            <<>>) >>]

translator ==
    [name |-> <<"T", "r", "a", "n", "s", "l", "a", "t", "o", "r">>,
     isJunction |-> FALSE,
     fields |-> <<
        Column(<<"t", "r", "a", "n", "s", "l", "a", "t", "o", "r", "I",
            "d">>, FALSE, <<>>),
        Column(<<"n", "a", "m", "e">>, FALSE, <<>>),
        Column(<<"n", "a", "t", "i", "v", "e", "L", "a", "n", "g", "u", "a",
            "g", "e">>, FALSE, <<>>),
        Column(<<"c", "r", "e", "a", "t", "e", "d", "A", "t">>, FALSE, <<>>),
        Column(<<"u", "p", "d", "a", "t", "e", "d", "A", "t">>, FALSE,
            <<>>) >>]

publisher ==
    [name |-> <<"P", "u", "b", "l", "i", "s", "h", "e", "r">>,
     isJunction |-> FALSE,
     fields |-> <<
        Column(<<"p", "u", "b", "l", "i", "s", "h", "e", "r", "I", "d">>,
            FALSE, <<>>),
        Column(<<"n", "a", "m", "e">>, FALSE, <<>>),
        Column(<<"c", "o", "u", "n", "t", "r", "y">>, TRUE, <<>>),
        Column(<<"f", "o", "u", "n", "d", "e", "d">>, TRUE, <<>>),
        Column(<<"c", "r", "e", "a", "t", "e", "d", "A", "t">>, FALSE, <<>>),
        Column(<<"u", "p", "d", "a", "t", "e", "d", "A", "t">>, FALSE,
            <<>>) >>]

edition ==
    [name |-> <<"E", "d", "i", "t", "i", "o", "n">>,
     isJunction |-> FALSE,
     fields |-> <<
        Column(<<"e", "d", "i", "t", "i", "o", "n", "I", "d">>, FALSE, <<>>),
        Column(<<"b", "o", "o", "k", "I", "d">>, FALSE,
               RefField(<<"B", "o", "o", "k">>, <<"b", "o", "o", "k", "I",
                   "d">>)),
        Column(<<"t", "r", "a", "n", "s", "l", "a", "t", "o", "r", "I",
            "d">>, TRUE,
               RefField(<<"T", "r", "a", "n", "s", "l", "a", "t", "o", "r">>,
                   <<"t", "r", "a", "n", "s", "l", "a", "t", "o", "r", "I",
                   "d">>)),
        Column(<<"p", "u", "b", "l", "i", "s", "h", "e", "r", "I", "d">>,
            FALSE,
               RefField(<<"P", "u", "b", "l", "i", "s", "h", "e", "r">>,
                   <<"p", "u", "b", "l", "i", "s", "h", "e", "r", "I",
                   "d">>)),
        Column(<<"f", "o", "r", "m", "a", "t">>, FALSE, <<>>),
        Column(<<"l", "a", "n", "g", "u", "a", "g", "e">>, FALSE, <<>>),
        Column(<<"t", "i", "t", "l", "e">>, FALSE, <<>>),
        Column(<<"i", "s", "b", "n">>, TRUE, <<>>),
        Column(<<"p", "u", "b", "l", "i", "c", "a", "t", "i", "o", "n", "Y",
            "e", "a", "r">>, FALSE, <<>>),
        Column(<<"c", "r", "e", "a", "t", "e", "d", "A", "t">>, FALSE, <<>>),
        Column(<<"u", "p", "d", "a", "t", "e", "d", "A", "t">>, FALSE,
            <<>>) >>]

review ==
    [name |-> <<"R", "e", "v", "i", "e", "w">>,
     isJunction |-> FALSE,
     fields |-> <<
        Column(<<"r", "e", "v", "i", "e", "w", "I", "d">>, FALSE, <<>>),
        Column(<<"b", "o", "o", "k", "I", "d">>, FALSE,
               RefField(<<"B", "o", "o", "k">>, <<"b", "o", "o", "k", "I",
                   "d">>)),
        Column(<<"r", "a", "t", "i", "n", "g">>, FALSE, <<>>),
        Column(<<"t", "e", "x", "t">>, TRUE, <<>>),
        Column(<<"r", "e", "v", "i", "e", "w", "e", "r", "N", "a", "m",
            "e">>, FALSE, <<>>),
        Column(<<"r", "e", "v", "i", "e", "w", "D", "a", "t", "e">>, FALSE,
            <<>>),
        Column(<<"c", "r", "e", "a", "t", "e", "d", "A", "t">>, FALSE, <<>>),
        Column(<<"u", "p", "d", "a", "t", "e", "d", "A", "t">>, FALSE,
            <<>>) >>]

bookstoreEntities ==
    <<author, book, genre, bookGenre, bookTag,
      translator, publisher, edition, review>>

\* Position in the fixture of the table loaded last, 0 when none is.
LastLoaded ==
    IF tables = <<>> THEN 0
    ELSE CHOOSE n \in 1..Len(bookstoreEntities) :
             bookstoreEntities[n] = tables[Len(tables)]

\* The input is filled with tables of the fixture, in the fixture's order;
\* a table may be left out.
LoadEntity(n) ==
    /\ calls = 0
    /\ n > LastLoaded
    /\ tables' = Append(tables, bookstoreEntities[n])
    /\ UNCHANGED <<graph, threw, calls, word, oneName, program, ir, heap, pc, code>>

NextBookstore ==
    \/ \E n \in 1..Len(bookstoreEntities) : LoadEntity(n)
    \/ Call

SpecBookstore == Init /\ [][NextBookstore]_vars

(***************************************************************************)
(* The program is filled as the mock of the builder tests fills it:        *)
(* createModel and addProp declare models and properties (a property is    *)
(* named by its position in its model), and the decorators record their    *)
(* state.  Decoration ends when buildIR has run.                           *)
(***************************************************************************)
relationVars ==
    <<tables, graph, threw, calls, word, oneName, heap, pc, code>>

KindPool == <<"Model", "Interface">>

EntityNamePool == << <<"A">>, <<"B">> >>

\* The name given to the model declared m-th.
EntityNameOf(m) == EntityNamePool[((m - 1) % Len(EntityNamePool)) + 1]

Service == <<"s", "v", "c">>

SqlTableNamePool == << <<"a", "s">> >>

PropNamePool ==
    << <<"i", "d">>, <<"r", "e", "f", "I", "d">>, <<"n">>, <<"a", "B">> >>

StringType == [kind |-> "Scalar", chain |-> <<"string">>]

ModelIds(prog) == 1..Len(prog.models)

PropIds(prog) ==
    UNION {{<<m, j>> : j \in 1..Len(prog.models[m].properties)} :
           m \in ModelIds(prog)}

RECURSIVE CountProps(_)
CountProps(models) ==
    IF models = <<>> THEN 0
    ELSE Len(Head(models).properties) + CountProps(Tail(models))

createModel(kind) ==
    /\ ~ir.built
    /\ Len(program.models) < MaxModels
    /\ program' = [program EXCEPT
                     !.models = Append(@, [kind |-> kind, properties |-> <<>>])]
    /\ UNCHANGED <<relationVars, ir>>

addProp(m, type, optional) ==
    /\ ~ir.built
    /\ m \in ModelIds(program)
    /\ program.models[m].kind = "Model"
    /\ CountProps(program.models) < MaxProps
    /\ LET j == Len(program.models[m].properties) + 1
       IN  /\ j <= Len(PropNamePool)
           /\ program' = [program EXCEPT
                 !.models[m].properties =
                     Append(@, [name     |-> PropNamePool[j],
                                type     |-> type,
                                optional |-> optional,
                                model    |-> <<m>>,
                                default  |-> <<>>])]
    /\ UNCHANGED <<relationVars, ir>>

\* $table(context, target, name, service)
Table(target, name) ==
    /\ ~ir.built
    /\ target \in ModelIds(program)
    /\ program' = [program EXCEPT
          !.table = MapSet(@, target, [name |-> name, service |-> Service])]
    /\ UNCHANGED <<relationVars, ir>>

\* $primaryKey(context, target, tableName)
PrimaryKey(target, tableName) ==
    /\ ~ir.built
    /\ target \in ModelIds(program)
    /\ program' = [program EXCEPT
          !.primaryKey = StateSet(@, target, [tableName |-> tableName])]
    /\ UNCHANGED <<relationVars, ir>>

\* $junction(context, target)
Junction(target) ==
    /\ ~ir.built
    /\ target \in ModelIds(program)
    /\ program' = [program EXCEPT !.junction = @ \cup {target}]
    /\ UNCHANGED <<relationVars, ir>>

\* $pk(context, target)
Pk(target) ==
    /\ ~ir.built
    /\ target \in PropIds(program)
    /\ program' = [program EXCEPT !.pk = @ \cup {target}]
    /\ UNCHANGED <<relationVars, ir>>

\* const { tables, enums } = buildIR(program)
BuildIR ==
    /\ ~ir.built
    /\ LET out == buildIR(program)
       IN  ir' = [built |-> TRUE, tables |-> out.tables, enums |-> out.enums]
    /\ UNCHANGED <<relationVars, program>>

NextEntities ==
    \/ \E n \in 1..Len(KindPool) : createModel(KindPool[n])
    \/ \E optional \in BOOLEAN :
           addProp(Len(program.models), StringType, optional)
    \/ \E m \in 1..MaxModels : Table(m, EntityNameOf(m))
    \/ \E m \in 1..MaxModels, n \in 1..Len(SqlTableNamePool) :
           PrimaryKey(m, SqlTableNamePool[n])
    \/ \E m \in 1..MaxModels, j \in 1..MaxProps : Pk(<<m, j>>)
    \/ BuildIR

SpecEntities == Init /\ [][NextEntities]_vars

\* A property that belongs to no model (prop.model is undefined).
DetachedProp == [model |-> <<>>, name |-> <<"x">>]

\* The ModelProperty objects a decorator can be handed.
PropObjects(prog) ==
    {[model |-> prog.models[id[1]].properties[id[2]].model,
      name  |-> prog.models[id[1]].properties[id[2]].name] :
         id \in PropIds(prog)} \cup {DetachedProp}

\* $references(context, target, ref)
References(target, ref) ==
    /\ ~ir.built
    /\ target \in PropIds(program)
    /\ ref \in PropObjects(program)
    /\ program' = [program EXCEPT !.references = StateSet(@, target, ref)]
    /\ UNCHANGED <<relationVars, ir>>

NextReferences ==
    \/ createModel("Model")
    \/ addProp(Len(program.models), StringType, FALSE)
    \/ \E m \in 1..MaxModels : Table(m, EntityNameOf(m))
    \/ \E m \in 1..MaxModels, n \in 1..Len(SqlTableNamePool) :
           PrimaryKey(m, SqlTableNamePool[n])
    \/ \E id \in PropIds(program), ref \in PropObjects(program) :
           References(id, ref)
    \/ BuildIR

SpecReferences == Init /\ [][NextReferences]_vars

(***************************************************************************)
(* Property types.  The program starts with two models declared as tables  *)
(* A and B; properties of scalar, enum and other types are added to them   *)
(* and @uuid is recorded on some.                                          *)
(***************************************************************************)
\* createModel, $table and $primaryKey done for two models.
DeclaredTables ==
    [EmptyProgram EXCEPT
        !.models = << [kind |-> "Model", properties |-> <<>>],
                      [kind |-> "Model", properties |-> <<>>] >>,
        !.table = << [key |-> 1, value |-> [name |-> EntityNameOf(1),
                                            service |-> Service]],
                     [key |-> 2, value |-> [name |-> EntityNameOf(2),
                                            service |-> Service]] >>,
        !.primaryKey = StateSet(StateSet(NoEntries, 1,
                                   [tableName |-> SqlTableNamePool[1]]),
                                2, [tableName |-> <<"b", "s">>])]

InitDeclared ==
    /\ tables = <<>>
    /\ graph = NoGraph
    /\ threw = FALSE
    /\ calls = 0
    /\ word = <<>>
    /\ oneName = NotDerived
    /\ program = DeclaredTables
    /\ ir = NotBuilt
    /\ heap = NoHeap
    /\ pc = Idle
    /\ code = NoCode

\* mockScalar(name), with the names of its base scalars after it.
ScalarPool ==
    << <<"string">>, <<"int32">>, <<"int64">>, <<"float32">>, <<"float64">>,
       <<"boolean">>, <<"utcDateTime">>,
       <<"small", "int32", "int64">>, <<"bytes">> >>

ScalarType(chain) == [kind |-> "Scalar", chain |-> chain]

\* Enum types: two whose names differ in the case of the first letter only,
\* and a third one.  A member is [name, value], value <<>> when it has none
\* and <<[typeof, value]>> when it has a string or a number.
EnumPool ==
    << [kind    |-> "Enum",
        name    |-> <<"S", "t">>,
        members |-> << [name |-> <<"a">>, value |-> <<>>],
                       [name  |-> <<"b">>,
                        value |-> <<[typeof |-> "string",
                                     value  |-> <<"x">>]>>] >>],
       [kind    |-> "Enum",
        name    |-> <<"s", "t">>,
        members |-> << [name  |-> <<"c">>,
                        value |-> <<[typeof |-> "number",
                                     value  |-> 1]>>] >>],
       [kind    |-> "Enum",
        name    |-> <<"K">>,
        members |-> << [name |-> <<"a">>, value |-> <<>>] >>] >>

\* A declared type that is neither a scalar nor an enum.
ModelType == [kind |-> "Model"]

UuidPool ==
    << [encoding |-> "base36", autoGenerate |-> <<TRUE>>],
       [encoding |-> "canonical", autoGenerate |-> <<>>] >>

\* addEnumProp(model, name, enumName, members, optional)
addEnumProp(m, enumType, optional) ==
    /\ enumType.kind = "Enum"
    /\ addProp(m, enumType, optional)

\* $uuid(context, target, encoding, autoGenerate?)
Uuid(target, encoding, autoGenerate) ==
    /\ ~ir.built
    /\ target \in PropIds(program)
    /\ program' = [program EXCEPT
          !.uuid = StateSet(@, target,
                     [encoding     |-> encoding,
                      autoGenerate |-> IF autoGenerate # <<>>
                                       THEN autoGenerate[1] ELSE FALSE])]
    /\ UNCHANGED <<relationVars, ir>>

NextTypes ==
    \/ \E m \in ModelIds(program), n \in 1..Len(ScalarPool) :
           addProp(m, ScalarType(ScalarPool[n]), FALSE)
    \/ \E m \in ModelIds(program) : addProp(m, ModelType, FALSE)
    \/ \E m \in ModelIds(program), n \in 1..Len(EnumPool) :
           addEnumProp(m, EnumPool[n], FALSE)
    \/ \E id \in PropIds(program), n \in 1..Len(UuidPool) :
           Uuid(id, UuidPool[n].encoding, UuidPool[n].autoGenerate)
    \/ BuildIR

SpecTypes == InitDeclared /\ [][NextTypes]_vars

(***************************************************************************)
(* Constraints.  Integer properties are added to the first declared table  *)
(* and @unique, @check, @minValue and @maxValue are recorded on them.      *)
(***************************************************************************)
CheckPool == << <<>>, <<"x", ">", "0">> >>

MinValuePool == <<0, 1>>

MaxValuePool == <<0, 5>>

\* $createdAt(context, target)
CreatedAt(target) ==
    /\ ~ir.built
    /\ target \in PropIds(program)
    /\ program' = [program EXCEPT !.createdAt = @ \cup {target}]
    /\ UNCHANGED <<relationVars, ir>>

\* $updatedAt(context, target)
UpdatedAt(target) ==
    /\ ~ir.built
    /\ target \in PropIds(program)
    /\ program' = [program EXCEPT !.updatedAt = @ \cup {target}]
    /\ UNCHANGED <<relationVars, ir>>

\* $unique(context, target)
Unique(target) ==
    /\ ~ir.built
    /\ target \in PropIds(program)
    /\ program' = [program EXCEPT !.unique = @ \cup {target}]
    /\ UNCHANGED <<relationVars, ir>>

\* $check(context, target, expression)
Check(target, expression) ==
    /\ ~ir.built
    /\ target \in PropIds(program)
    /\ program' = [program EXCEPT !.check = StateSet(@, target, expression)]
    /\ UNCHANGED <<relationVars, ir>>

\* $minValue(context, target, value)
MinValue(target, value) ==
    /\ ~ir.built
    /\ target \in PropIds(program)
    /\ program' = [program EXCEPT !.minValue = StateSet(@, target, value)]
    /\ UNCHANGED <<relationVars, ir>>

\* $maxValue(context, target, value)
MaxValue(target, value) ==
    /\ ~ir.built
    /\ target \in PropIds(program)
    /\ program' = [program EXCEPT !.maxValue = StateSet(@, target, value)]
    /\ UNCHANGED <<relationVars, ir>>

NextConstraints ==
    \/ addProp(1, ScalarType(<<"int32">>), FALSE)
    \/ \E id \in PropIds(program) : Unique(id)
    \/ \E id \in PropIds(program), n \in 1..Len(CheckPool) :
           Check(id, CheckPool[n])
    \/ \E id \in PropIds(program), n \in 1..Len(MinValuePool) :
           MinValue(id, MinValuePool[n])
    \/ \E id \in PropIds(program), n \in 1..Len(MaxValuePool) :
           MaxValue(id, MaxValuePool[n])
    \/ BuildIR

SpecConstraints == InitDeclared /\ [][NextConstraints]_vars

(***************************************************************************)
(* Visibility.  Properties are added to the two declared tables and        *)
(* @visibility, @createdAt and @updatedAt are recorded on them.  The       *)
(* decorator $visibility writes the state map of key visibility; buildIR   *)
(* reads the state map of key columnVisibility.                            *)
(***************************************************************************)
VisibilityPool == << <<"r", "e", "a", "d">>, <<"n", "o", "n", "e">> >>

\* $visibility(context, target, value)
Visibility(target, value) ==
    /\ ~ir.built
    /\ target \in PropIds(program)
    /\ program' = [program EXCEPT !.visibility = StateSet(@, target, value)]
    /\ UNCHANGED <<relationVars, ir>>

NextVisibility ==
    \/ \E m \in ModelIds(program), optional \in BOOLEAN :
           addProp(m, StringType, optional)
    \/ \E id \in PropIds(program), n \in 1..Len(VisibilityPool) :
           Visibility(id, VisibilityPool[n])
    \/ \E id \in PropIds(program) : CreatedAt(id)
    \/ \E id \in PropIds(program) : UpdatedAt(id)
    \/ BuildIR

SpecVisibility == InitDeclared /\ [][NextVisibility]_vars

(***************************************************************************)
(* Model-level lists.  The two declared tables have properties, and        *)
(* @compositeUnique, @indexDef and @foreignKeyDef are recorded on them.    *)
(***************************************************************************)
PropOf(m, j) ==
    [name     |-> PropNamePool[j],
     type     |-> StringType,
     optional |-> FALSE,
     model    |-> <<m>>,
     default  |-> <<>>]

DeclaredFields ==
    [DeclaredTables EXCEPT
        !.models[1].properties = <<PropOf(1, 1)>>,
        !.models[2].properties = <<PropOf(2, 1), PropOf(2, 2)>>]

InitLists ==
    /\ tables = <<>>
    /\ graph = NoGraph
    /\ threw = FALSE
    /\ calls = 0
    /\ word = <<>>
    /\ oneName = NotDerived
    /\ program = DeclaredFields
    /\ ir = NotBuilt
    /\ heap = NoHeap
    /\ pc = Idle
    /\ code = NoCode

ListNamePool == << <<"x">>, <<"y">> >>

\* The ModelProperty[] arguments.
ColumnsPool ==
    << << [model |-> <<1>>, name |-> PropNamePool[1]] >>,
       << [model |-> <<2>>, name |-> PropNamePool[1]],
          [model |-> <<2>>, name |-> PropNamePool[2]] >> >>

ForeignColumnsPool ==
    << << [model |-> <<2>>, name |-> PropNamePool[1]] >>, <<>> >>

\* The optional argument unique of $indexDef: omitted, true or false.
UniqueArgPool == << <<>>, <<TRUE>>, <<FALSE>> >>

CountEntries(prog) ==
    LET total(map) ==
            (IF 1 \in DOMAIN map THEN Len(map[1]) ELSE 0)
            + (IF 2 \in DOMAIN map THEN Len(map[2]) ELSE 0)
    IN  total(prog.compositeUnique) + total(prog.indexDef)
        + total(prog.foreignKeyDef)

\* Faulty variant: the entry replaces the list stored for the target.
setEntry(map, target, entry) == StateSet(map, target, <<entry>>)

\* existing = (stateMap.get(target) ?? []); existing.push(entry);
\* stateMap.set(target, existing)
pushEntry(map, target, entry) ==
    StateSet(map, target, Append(modelList(map, target), entry))

\* $compositeUnique(context, target, name, columns)
CompositeUnique(target, name, columns) ==
    /\ ~ir.built
    /\ target \in ModelIds(program)
    /\ CountEntries(program) < MaxEntries
    /\ program' = [program EXCEPT
          !.compositeUnique =
              pushEntry(@, target, [name |-> name, columns |-> columns])]
    /\ UNCHANGED <<relationVars, ir>>

\* $indexDef(context, target, name, columns, unique?)
IndexDef(target, name, columns, unique) ==
    /\ ~ir.built
    /\ target \in ModelIds(program)
    /\ CountEntries(program) < MaxEntries
    /\ program' = [program EXCEPT
          !.indexDef =
              pushEntry(@, target,
                  [name    |-> name,
                   columns |-> columns,
                   unique  |-> IF unique # <<>> THEN unique[1] ELSE FALSE])]
    /\ UNCHANGED <<relationVars, ir>>

\* $foreignKeyDef(context, target, name, columns, foreignColumns)
ForeignKeyDef(target, name, columns, foreignColumns) ==
    /\ ~ir.built
    /\ target \in ModelIds(program)
    /\ CountEntries(program) < MaxEntries
    /\ program' = [program EXCEPT
          !.foreignKeyDef =
              pushEntry(@, target,
                  [name           |-> name,
                   columns        |-> columns,
                   foreignColumns |-> foreignColumns])]
    /\ UNCHANGED <<relationVars, ir>>

NextLists ==
    \/ \E m \in ModelIds(program), n \in 1..Len(ListNamePool) :
           CompositeUnique(m, ListNamePool[n], ColumnsPool[n])
    \/ \E m \in ModelIds(program), n \in 1..Len(ListNamePool),
          u \in 1..Len(UniqueArgPool) :
           IndexDef(m, ListNamePool[n], ColumnsPool[n], UniqueArgPool[u])
    \/ \E m \in ModelIds(program), n \in 1..Len(ListNamePool) :
           ForeignKeyDef(m, ListNamePool[n], ColumnsPool[n],
                         ForeignColumnsPool[n])
    \/ \E m \in ModelIds(program) : Junction(m)
    \/ BuildIR

SpecLists == InitLists /\ [][NextLists]_vars

(***************************************************************************)
(* The TableDef[] of the calls that are followed through the store and    *)
(* one loop iteration at a time: A, a table B that references it and a    *)
(* junction J between the two.                                            *)
(***************************************************************************)
FreshTables ==
    << [name |-> <<"A">>, isJunction |-> FALSE,
        fields |-> <<NewField(1, <<>>)>>],
       [name |-> <<"B">>, isJunction |-> FALSE,
        fields |-> <<NewField(1, RefTo(<<"A">>))>>],
       [name |-> <<"J">>, isJunction |-> TRUE,
        fields |-> <<NewField(1, RefTo(<<"A">>)),
                     NewField(3, RefTo(<<"B">>))>>] >>

(***************************************************************************)
(* The loops, one iteration at a time.  pc.fn is the function being        *)
(* executed, pc.loop the loop it is in, pc.i, pc.j and pc.d the positions  *)
(* of the outer loop, of the inner loop and of resolveScalarType in the    *)
(* base-scalar chain, and pc.steps the number of loop bodies and           *)
(* resolveScalarType calls executed so far.  The inputs do not make a      *)
(* naming helper throw.                                                    *)
(***************************************************************************)
\* A scalar over an unrecognized base and one property of each kind of
\* type on the first table; the second model has no @primaryKey state.
TypedProgram ==
    [DeclaredTables EXCEPT
        !.models[1].properties =
            << [PropOf(1, 1) EXCEPT
                   !.type = ScalarType(<<"small", "int32", "int64">>)],
               [PropOf(1, 2) EXCEPT !.type = ScalarType(<<"u", "v">>)],
               [PropOf(1, 3) EXCEPT !.type = EnumPool[1]],
               [PropOf(1, 4) EXCEPT !.type = ScalarType(<<"bytes">>)] >>,
        !.models[2].properties = <<PropOf(2, 1)>>,
        !.primaryKey = StateSet(NoEntries, 1,
                                [tableName |-> SqlTableNamePool[1]]),
        !.uuid = StateSet(NoEntries, <<1, 4>>,
                          [encoding |-> "base36", autoGenerate |-> FALSE])]

\* Model-level lists on both tables.
ListedProgram ==
    [DeclaredFields EXCEPT
        !.compositeUnique =
            StateSet(NoEntries, 1,
                << [name |-> ListNamePool[1], columns |-> ColumnsPool[1]] >>),
        !.indexDef =
            StateSet(NoEntries, 2,
                << [name |-> ListNamePool[1], columns |-> ColumnsPool[2],
                    unique |-> FALSE],
                   [name |-> ListNamePool[2], columns |-> ColumnsPool[2],
                    unique |-> TRUE] >>)]

StepPrograms == {EmptyProgram, DeclaredFields, TypedProgram, ListedProgram}

InitSteps ==
    /\ tables \in {SubSeq(FreshTables, 1, n) : n \in 0..Len(FreshTables)}
    /\ program \in StepPrograms
    /\ graph = NoGraph
    /\ threw = FALSE
    /\ calls = 0
    /\ word = <<>>
    /\ oneName = NotDerived
    /\ ir = NotBuilt
    /\ heap = NoHeap
    /\ pc = Idle
    /\ code = NoCode

At(fn, loop, i, j, d, steps) ==
    [fn |-> fn, loop |-> loop, i |-> i, j |-> j, d |-> d, steps |-> steps]

Running(fn, loop) == pc.fn = fn /\ pc.loop = loop

stepVars == <<tables, word, oneName, program, heap, code>>

\* buildRelationGraph(tables) is called.
StartGraph ==
    /\ pc.fn = "none"
    /\ pc' = At("buildRelationGraph", "init", 1, 1, 1, 0)
    /\ UNCHANGED <<stepVars, graph, threw, calls, ir>>

\* for (const table of tables) graph.set(table.name, [])
GraphInitLoop ==
    /\ Running("buildRelationGraph", "init")
    /\ pc' = IF pc.i <= Len(tables)
             THEN [pc EXCEPT !.i = @ + 1, !.steps = @ + 1]
             ELSE [pc EXCEPT !.loop = "references", !.i = 1, !.j = 1]
    /\ UNCHANGED <<stepVars, graph, threw, calls, ir>>

\* for (const table of tables): one table is entered, or the loop ends.
GraphReferencesLoop ==
    /\ Running("buildRelationGraph", "references")
    /\ pc' = IF pc.i <= Len(tables)
             THEN [pc EXCEPT !.loop = "fields", !.j = 1, !.steps = @ + 1]
             ELSE [pc EXCEPT !.loop = "junctions", !.i = 1, !.j = 1]
    /\ UNCHANGED <<stepVars, graph, threw, calls, ir>>

\* for (const field of table.fields): one field, or the next table.
GraphFieldsLoop ==
    /\ Running("buildRelationGraph", "fields")
    /\ pc' = IF pc.j <= Len(tables[pc.i].fields)
             THEN [pc EXCEPT !.j = @ + 1, !.steps = @ + 1]
             ELSE [pc EXCEPT !.loop = "references", !.i = @ + 1, !.j = 1]
    /\ UNCHANGED <<stepVars, graph, threw, calls, ir>>

\* for (const table of tables), step 2: one table with its filter.
GraphJunctionsLoop ==
    /\ Running("buildRelationGraph", "junctions")
    /\ pc.i <= Len(tables)
    /\ pc' = [pc EXCEPT !.i = @ + 1, !.steps = @ + 1]
    /\ UNCHANGED <<stepVars, graph, threw, calls, ir>>

\* return graph
GraphReturn ==
    /\ Running("buildRelationGraph", "junctions")
    /\ pc.i > Len(tables)
    /\ pc' = [pc EXCEPT !.fn = "returned", !.loop = "buildRelationGraph"]
    /\ graph' = buildRelationGraph(tables).graph
    /\ threw' = buildRelationGraph(tables).threw
    /\ calls' = calls + 1
    /\ UNCHANGED <<stepVars, ir>>

\* buildIR(program) is called.
StartIR ==
    /\ pc.fn = "none"
    /\ pc' = At("buildIR", "tables", 1, 1, 1, 0)
    /\ UNCHANGED <<stepVars, graph, threw, calls, ir>>

\* for (const [target, meta] of tableState): one entry, skipped or entered.
IRTablesLoop ==
    /\ Running("buildIR", "tables")
    /\ pc.i <= Len(program.table)
    /\ pc' = IF emitsModel(program, program.table[pc.i].key)
             THEN [pc EXCEPT !.loop = "properties", !.j = 1, !.steps = @ + 1]
             ELSE [pc EXCEPT !.i = @ + 1, !.steps = @ + 1]
    /\ UNCHANGED <<stepVars, graph, threw, calls, ir>>

\* The properties of the model of entry pc.i.
StepProps == program.models[program.table[pc.i].key].properties

\* for (const [propName, prop] of model.properties): one property, whose
\* type is resolved at once or by resolveScalarType; or the loop ends.
IRPropertiesLoop ==
    /\ Running("buildIR", "properties")
    /\ pc' = IF pc.j > Len(StepProps)
             THEN [pc EXCEPT !.loop = "lists", !.j = 1]
             ELSE IF /\ StepProps[pc.j].type.kind = "Scalar"
                     /\ ~StateHas(program.uuid,
                                  <<program.table[pc.i].key, pc.j>>)
                  THEN [pc EXCEPT !.loop = "scalar", !.d = 1, !.steps = @ + 1]
                  ELSE [pc EXCEPT !.j = @ + 1, !.steps = @ + 1]
    /\ UNCHANGED <<stepVars, graph, threw, calls, ir>>

\* The names of the switch of resolveScalarType.
SwitchNames ==
    {"string", "int32", "int64", "float32", "float64", "boolean",
     "utcDateTime"}

\* Faulty variant: the base scalar is the scalar itself.
baseScalarSelf(d) == d

\* scalar.baseScalar
baseScalar(d) == d + 1

\* One call of resolveScalarType on the scalar at depth pc.d of the chain:
\* it returns for a name of the switch or for a scalar without base scalar,
\* and calls itself on the base scalar otherwise.
IRScalarStep ==
    /\ Running("buildIR", "scalar")
    /\ LET chain == StepProps[pc.j].type.chain
       IN  pc' = IF chain[pc.d] \in SwitchNames \/ pc.d = Len(chain)
                 THEN [pc EXCEPT !.loop = "properties", !.j = @ + 1,
                                 !.steps = @ + 1]
                 ELSE [pc EXCEPT !.d = baseScalar(@), !.steps = @ + 1]
    /\ UNCHANGED <<stepVars, graph, threw, calls, ir>>

\* The entries of the three model-level lists of model m.
ListEntries(prog, m) ==
    Len(modelList(prog.compositeUnique, m)) + Len(modelList(prog.indexDef, m))
    + Len(modelList(prog.foreignKeyDef, m))

\* (compositeUniques ?? []).map, (indexDefs ?? []).map, (fkDefs ?? []).map:
\* one entry, or tables.push and the next entry of the @table state.
IRListsLoop ==
    /\ Running("buildIR", "lists")
    /\ pc' = IF pc.j <= ListEntries(program, program.table[pc.i].key)
             THEN [pc EXCEPT !.j = @ + 1, !.steps = @ + 1]
             ELSE [pc EXCEPT !.loop = "tables", !.i = @ + 1, !.j = 1]
    /\ UNCHANGED <<stepVars, graph, threw, calls, ir>>

\* return { tables, enums }
IRReturn ==
    /\ Running("buildIR", "tables")
    /\ pc.i > Len(program.table)
    /\ pc' = [pc EXCEPT !.fn = "returned", !.loop = "buildIR"]
    /\ ir' = [built  |-> TRUE,
              tables |-> buildIR(program).tables,
              enums  |-> buildIR(program).enums]
    /\ UNCHANGED <<stepVars, graph, threw, calls>>

NextSteps ==
    \/ StartGraph
    \/ GraphInitLoop
    \/ GraphReferencesLoop
    \/ GraphFieldsLoop
    \/ GraphJunctionsLoop
    \/ GraphReturn
    \/ StartIR
    \/ IRTablesLoop
    \/ IRPropertiesLoop
    \/ IRScalarStep
    \/ IRListsLoop
    \/ IRReturn

\* Both functions are synchronous: a call that has started runs on.
SpecSteps == InitSteps /\ [][NextSteps]_vars /\ WF_vars(NextSteps)

(***************************************************************************)
(* The object store.  Arrays, Maps, Sets and objects are kept by identity: *)
(* heap.objects[a] is the object at address a, and a slot of an object     *)
(* holds a string, number or boolean (Prim), the address of another object *)
(* (Ref; Some when the property is optional, read back as <<object>>) or   *)
(* undefined.  An object literal, an array literal, new Map() and          *)
(* Array.prototype.map allocate a new object; a property that is assigned  *)
(* an existing array or object holds the address of that one.  The input   *)
(* of the two functions is stored as well, so that a call reads it, and    *)
(* could write it, through its addresses.                                  *)
(*                                                                         *)
(* heap.tables and heap.program are the addresses of the TableDef[] and of *)
(* the program, heap.size is the number of objects of the input,           *)
(* heap.calls[c] is the outcome of call c (the function, whether it threw, *)
(* the address it returned and the value read from it at that moment) and  *)
(* heap.touched are the calls whose result the caller has written to.      *)
(***************************************************************************)
Prim(v) == [tag |-> "prim", at |-> v]

Ref(a) == [tag |-> "ref", at |-> a]

Some(a) == [tag |-> "some", at |-> a]

Undefined == [tag |-> "undefined", at |-> 0]

IsRef(slot) == slot.tag = "ref" \/ slot.tag = "some"

\* An optional string or number read from a slot: <<>> when undefined.
Opt(slot) == IF slot.tag = "prim" THEN <<slot.at>> ELSE <<>>

Object(fields) == [kind |-> "Object", fields |-> fields]

Array(items) == [kind |-> "Array", fields |-> items]

MapObject(entries) == [kind |-> "Map", fields |-> entries]

SetObject(members) == [kind |-> "Set", fields |-> members]

\* An object literal whose properties are all strings, numbers or booleans.
Literal(record) == Object([k \in DOMAIN record |-> Prim(record[k])])

\* Allocation: the new object gets the next address, Len of the result.
New(h, object) == Append(h, object)

\* The addresses held by the slots of an object.
Targets(o) ==
    IF o.kind = "Map"
    THEN {o.fields[i].key.at :
             i \in {n \in DOMAIN o.fields : IsRef(o.fields[n].key)}}
         \cup {o.fields[i].value.at :
             i \in {n \in DOMAIN o.fields : IsRef(o.fields[n].value)}}
    ELSE {o.fields[k].at : k \in {n \in DOMAIN o.fields : IsRef(o.fields[n])}}

\* The objects that can be reached from the addresses seen.
RECURSIVE Reach(_, _)
Reach(h, seen) ==
    LET next == seen \cup UNION {Targets(h[a]) : a \in seen}
    IN  IF next = seen THEN seen ELSE Reach(h, next)

\* The value read from address a, followed through every slot: a record
\* for an object, a sequence for an array, a function of its keys for a Map.
RECURSIVE Deep(_, _)
Deep(h, a) ==
    LET o == h[a]
        val(slot) == IF slot.tag = "prim" THEN slot.at
                     ELSE IF slot.tag = "undefined" THEN <<>>
                     ELSE IF slot.tag = "some" THEN <<Deep(h, slot.at)>>
                     ELSE Deep(h, slot.at)
    IN  IF o.kind = "Map"
        THEN [key \in {o.fields[i].key.at : i \in DOMAIN o.fields} |->
                 val(o.fields[CHOOSE i \in DOMAIN o.fields :
                                  o.fields[i].key.at = key].value)]
        ELSE [k \in DOMAIN o.fields |-> val(o.fields[k])]

\* Map.prototype.get on the Map at m: the slot under key, or undefined.
GetAt(h, m, key) ==
    LET entries == h[m].fields
    IN  IF \E i \in DOMAIN entries : entries[i].key = key
        THEN entries[CHOOSE i \in DOMAIN entries : entries[i].key = key].value
        ELSE Undefined

\* Map.prototype.set on the Map at m: a key already present keeps its place.
SetAt(h, m, key, value) ==
    LET entries == h[m].fields
        entry == [key |-> key, value |-> value]
    IN  [h EXCEPT ![m].fields =
            IF \E i \in DOMAIN entries : entries[i].key = key
            THEN [i \in DOMAIN entries |->
                     IF entries[i].key = key THEN entry ELSE entries[i]]
            ELSE Append(entries, entry)]

\* Set.prototype.has on the Set at s.
HasAt(h, s, member) == \E i \in DOMAIN h[s].fields : h[s].fields[i] = member

\* Array.prototype.push on the array at a.
PushAt(h, a, slot) == [h EXCEPT ![a].fields = Append(@, slot)]

(***************************************************************************)
(* The TableDef[] in the store, written as the array literal of a caller:  *)
(* every table, fields array, field and reference is an object of its own. *)
(***************************************************************************)
StoreField(h, field) ==
    IF field.references = <<>>
    THEN New(h, Object([name       |-> Prim(field.name),
                        nullable   |-> Prim(field.nullable),
                        references |-> Undefined]))
    ELSE LET h1 == New(h, Literal(field.references[1]))
         IN  New(h1, Object([name       |-> Prim(field.name),
                             nullable   |-> Prim(field.nullable),
                             references |-> Some(Len(h1))]))

\* The fields that follow the ones stored at items, then the array that
\* holds them all.
RECURSIVE StoreFields(_, _, _)
StoreFields(h, fields, items) ==
    IF Len(items) = Len(fields) THEN New(h, Array(items))
    ELSE LET h1 == StoreField(h, fields[Len(items) + 1])
         IN  StoreFields(h1, fields, Append(items, Ref(Len(h1))))

StoreTable(h, table) ==
    LET h1 == StoreFields(h, table.fields, <<>>)
    IN  New(h1, Object([name       |-> Prim(table.name),
                        isJunction |-> Prim(table.isJunction),
                        fields     |-> Ref(Len(h1))]))

\* The tables that follow the ones stored at items, then the array that
\* holds them all.
RECURSIVE StoreTables(_, _, _)
StoreTables(h, ts, items) ==
    IF Len(items) = Len(ts) THEN New(h, Array(items))
    ELSE LET h1 == StoreTable(h, ts[Len(items) + 1])
         IN  StoreTables(h1, ts, Append(items, Ref(Len(h1))))

(***************************************************************************)
(* buildRelationGraph on the stored TableDef[].  A run is [objects, threw]:*)
(* the store as the call has left it so far.  The tables, fields and       *)
(* references are read from the store at the moment the loop reaches them. *)
(***************************************************************************)
\* graph.set(table.name, []) for the tables from position i on.
RECURSIVE SetLists(_, _, _, _)
SetLists(h, g, ts, i) ==
    IF i > Len(h[ts].fields) THEN h
    ELSE LET table == h[h[ts].fields[i].at].fields
             h1 == New(h, Array(<<>>))
         IN  SetLists(SetAt(h1, g, table.name, Ref(Len(h1))), g, ts, i + 1)

\* The relation literal: the junction of a many-through relation is an
\* object literal inside it.
StoreRelation(h, relation) ==
    IF relation.kind = "many-through"
    THEN LET h1 == New(h, Literal(relation.junction))
         IN  New(h1, Object([k \in DOMAIN relation |->
                                IF k = "junction" THEN Ref(Len(h1))
                                ELSE Prim(relation[k])]))
    ELSE New(h, Literal(relation))

\* graph.get(key)?.push({ ... }): the literal is evaluated, and allocated,
\* only when the graph has a list under key.
pushOn(h, g, key, relation) ==
    LET list == GetAt(h, g, Prim(key))
    IN  IF IsRef(list)
        THEN LET h1 == StoreRelation(h, relation)
             IN  PushAt(h1, list.at, Ref(Len(h1)))
        ELSE h

\* Faulty variant: a reference is handled once; field.references is cleared
\* when its relations have been pushed.
Pass1FieldAtOnce(run, g, t, f) ==
    IF run.threw THEN run
    ELSE LET h == run.objects
             table == Deep(h, t)
             field == Deep(h, f)
         IN  IF ~hasReferences(field) THEN run
             ELSE LET h1 == pushOn(h, g, table.name,
                                         OneRelation(table, field))
                      target == field.references[1].tableName
                      h2 == IF /\ WantsManyReverse(table)
                               /\ IsRef(GetAt(h1, g, Prim(target)))
                               /\ ~toTableVariableNameThrows(table.name)
                            THEN pushOn(h1, g, target,
                                              ManyRelation(table))
                            ELSE h1
                  IN  [objects |-> [h2 EXCEPT
                                      ![f].fields.references = Undefined],
                       threw |-> FALSE]

\* One field of step 1: t and f are the addresses of the table and the field.
Pass1FieldAt(run, g, t, f) ==
    IF run.threw THEN run
    ELSE LET h == run.objects
             table == Deep(h, t)
             field == Deep(h, f)
         IN  IF ~hasReferences(field) THEN run
             ELSE LET h1 == pushOn(h, g, table.name,
                                         OneRelation(table, field))
                      target == field.references[1].tableName
                  IN  IF /\ WantsManyReverse(table)
                         /\ IsRef(GetAt(h1, g, Prim(target)))
                      THEN IF toTableVariableNameThrows(table.name)
                           THEN [objects |-> h1, threw |-> TRUE]
                           ELSE [objects |-> pushOn(h1, g, target,
                                                 ManyRelation(table)),
                                 threw |-> FALSE]
                      ELSE [objects |-> h1, threw |-> FALSE]

\* for (const field of table.fields), from position j on.
RECURSIVE Pass1FieldsAt(_, _, _, _)
Pass1FieldsAt(run, g, t, j) ==
    LET fields == run.objects[run.objects[t].fields.fields.at].fields
    IN  IF run.threw \/ j > Len(fields) THEN run
        ELSE Pass1FieldsAt(Pass1FieldAt(run, g, t, fields[j].at), g, t, j + 1)

\* for (const table of tables), from position i on.
RECURSIVE Pass1At(_, _, _, _)
Pass1At(run, g, ts, i) ==
    LET list == run.objects[ts].fields
    IN  IF run.threw \/ i > Len(list) THEN run
        ELSE Pass1At(Pass1FieldsAt(run, g, list[i].at, 1), g, ts, i + 1)

\* One table of step 2: t is the address of the table.
Pass2TableAt(run, g, t) ==
    LET h == run.objects
        table == Deep(h, t)
    IN  IF run.threw \/ ~table.isJunction THEN run
        ELSE LET refFields == RefFields(table.fields) IN
             IF ~IsPair(refFields) THEN run
             ELSE LET fieldA == refFields[1]
                      fieldB == refFields[2]
                      a == fieldA.references[1].tableName
                      b == fieldB.references[1].tableName
                  IN  IF IsRef(GetAt(h, g, Prim(a)))
                         /\ toTableVariableNameThrows(b)
                      THEN [objects |-> h, threw |-> TRUE]
                      ELSE LET h1 == pushOn(h, g, a,
                                   ManyThroughRelation(table, fieldA, fieldB))
                           IN  IF IsRef(GetAt(h1, g, Prim(b)))
                                  /\ toTableVariableNameThrows(a)
                               THEN [objects |-> h1, threw |-> TRUE]
                               ELSE [objects |-> pushOn(h1, g, b,
                                         ManyThroughRelation(table, fieldB,
                                                             fieldA)),
                                     threw |-> FALSE]

\* for (const table of tables), from position i on.
RECURSIVE Pass2At(_, _, _, _)
Pass2At(run, g, ts, i) ==
    LET list == run.objects[ts].fields
    IN  IF run.threw \/ i > Len(list) THEN run
        ELSE Pass2At(Pass2TableAt(run, g, list[i].at), g, ts, i + 1)

\* buildRelationGraph(tables), tables the array at address ts: the store
\* after the call, whether it threw, and the address of the returned Map.
buildRelationGraphAt(h, ts) ==
    LET h0 == New(h, MapObject(<<>>))
        g == Len(h0)
        h1 == SetLists(h0, g, ts, 1)
        run == Pass2At(Pass1At([objects |-> h1, threw |-> FALSE], g, ts, 1),
                       g, ts, 1)
    IN  [objects |-> run.objects, threw |-> run.threw, at |-> g]

(***************************************************************************)
(* The program in the store, written as createModel, addProp and the       *)
(* decorators write it: a model and its properties Map, a property and its *)
(* type, and one Map or Set per state key, keyed by the model or property  *)
(* object.  The value a decorator records is an object of its own ($table, *)
(* $primaryKey, $uuid, the entries and column arrays of the model-level    *)
(* lists), a string or a number ($check, $minValue, $maxValue,             *)
(* $visibility) or the referenced property ($references).  A run is        *)
(* [objects, models, props, states]: models[m] is the address of model m,  *)
(* props[m][j] the address of its property j and states[name] the slot     *)
(* that holds the Map or Set of state key name.                            *)
(***************************************************************************)
\* The members that follow the ones stored at items, then the array that
\* holds them all.
RECURSIVE StoreMembers(_, _, _)
StoreMembers(h, members, items) ==
    IF Len(items) = Len(members) THEN New(h, Array(items))
    ELSE LET h1 == New(h, Literal(members[Len(items) + 1]))
         IN  StoreMembers(h1, members, Append(items, Ref(Len(h1))))

\* mockScalar and the enum type of addEnumProp.  A scalar is kept with the
\* chain of names scalar.name, scalar.baseScalar.name, ...; the members of
\* an enum are the values of its members Map, in the order of the Map.
StoreType(h, type) ==
    IF type.kind = "Enum"
    THEN LET h1 == StoreMembers(h, type.members, <<>>)
         IN  New(h1, Object([kind    |-> Prim(type.kind),
                             name    |-> Prim(type.name),
                             members |-> Ref(Len(h1))]))
    ELSE New(h, Literal(type))

\* addProp for the properties of model m that follow the ones stored.
RECURSIVE StoreProps(_, _, _)
StoreProps(run, m, props) ==
    IF Len(run.props[m]) = Len(props) THEN run
    ELSE LET prop == props[Len(run.props[m]) + 1]
             h1 == StoreType(run.objects, prop.type)
             h2 == New(h1, Object([name     |-> Prim(prop.name),
                                   type     |-> Ref(Len(h1)),
                                   optional |-> Prim(prop.optional),
                                   model    |-> Ref(run.models[m]),
                                   default  |-> Prim(prop.default)]))
             properties == h2[run.models[m]].fields.properties.at
             h3 == SetAt(h2, properties, Prim(prop.name), Ref(Len(h2)))
         IN  StoreProps([run EXCEPT !.objects = h3,
                                    !.props[m] = Append(@, Len(h2))],
                        m, props)

\* createModel for the models that follow the ones stored.
RECURSIVE StoreModels(_, _)
StoreModels(run, models) ==
    IF Len(run.models) = Len(models) THEN run
    ELSE LET m == Len(run.models) + 1
             h1 == New(run.objects, MapObject(<<>>))
             h2 == New(h1, Object([kind       |-> Prim(models[m].kind),
                                   properties |-> Ref(Len(h1))]))
             declared == [objects |-> h2,
                          models  |-> Append(run.models, Len(h2)),
                          props   |-> Append(run.props, <<>>),
                          states  |-> run.states]
         IN  StoreModels(StoreProps(declared, m, models[m].properties),
                         models)

\* The keys a state map or set can have, in the order of declaration.
RECURSIVE PropKeys(_, _)
PropKeys(models, m) ==
    IF m > Len(models) THEN <<>>
    ELSE [j \in 1..Len(models[m].properties) |-> <<m, j>>]
         \o PropKeys(models, m + 1)

ModelKeys(models) == [m \in 1..Len(models) |-> m]

\* The state keys whose targets are models; the others have properties.
ModelStateNames ==
    {"table", "primaryKey", "junction", "compositeUnique", "indexDef",
     "foreignKeyDef"}

\* The address of the model or property that is key of state key name.
KeyAt(run, name, key) ==
    IF name \in ModelStateNames THEN run.models[key]
    ELSE run.props[key[1]][key[2]]

\* The address of the property object [model, name] that a decorator was
\* handed: a property of the program.
PropAt(run, prog, prop) ==
    LET m == prop.model[1]
    IN  run.props[m][CHOOSE j \in 1..Len(prog.models[m].properties) :
                         prog.models[m].properties[j].name = prop.name]

\* The ModelProperty[] argument of a decorator: an array of the properties.
StoreColumns(run, prog, columns) ==
    New(run.objects,
        Array([k \in 1..Len(columns) |-> Ref(PropAt(run, prog, columns[k]))]))

\* The entries of a model-level list that follow the ones stored at
\* items, then the array that holds them all: { name, columns },
\* { name, columns, unique } or { name, columns, foreignColumns }.
RECURSIVE StoreEntries(_, _, _, _)
StoreEntries(run, prog, entries, items) ==
    IF Len(items) = Len(entries)
    THEN [run EXCEPT !.objects = New(@, Array(items))]
    ELSE LET e == entries[Len(items) + 1]
             h1 == StoreColumns(run, prog, e.columns)
             h2 == IF "foreignColumns" \in DOMAIN e
                   THEN StoreColumns([run EXCEPT !.objects = h1], prog,
                                     e.foreignColumns)
                   ELSE h1
             h3 == New(h2, Object([f \in DOMAIN e |->
                          IF f = "columns" THEN Ref(Len(h1))
                          ELSE IF f = "foreignColumns" THEN Ref(Len(h2))
                          ELSE Prim(e[f])]))
         IN  StoreEntries([run EXCEPT !.objects = h3], prog, entries,
                          Append(items, Ref(Len(h3))))

\* What stateMap(key).set(target, value) stores for the value of state key
\* name: the store after the value is written, and the slot that holds it.
StoreValue(run, prog, name, value) ==
    IF name \in {"table", "primaryKey", "uuid"}
    THEN LET h1 == New(run.objects, Literal(value))
         IN  [objects |-> h1, slot |-> Ref(Len(h1))]
    ELSE IF name = "references"
    THEN IF value.model = <<>>
         THEN LET h1 == New(run.objects,
                            Object([name  |-> Prim(value.name),
                                    model |-> Undefined]))
              IN  [objects |-> h1, slot |-> Ref(Len(h1))]
         ELSE [objects |-> run.objects,
               slot    |-> Ref(PropAt(run, prog, value))]
    ELSE IF name \in {"compositeUnique", "indexDef", "foreignKeyDef"}
    THEN LET h1 == StoreEntries(run, prog, value, <<>>).objects
         IN  [objects |-> h1, slot |-> Ref(Len(h1))]
    ELSE [objects |-> run.objects, slot |-> Prim(value)]

\* The entries of the state map of key name for the keys from position i
\* on, then the Map that holds them.
RECURSIVE StoreStateMap(_, _, _, _, _, _)
StoreStateMap(run, prog, name, keys, i, entries) ==
    IF i > Len(keys)
    THEN [run EXCEPT !.objects = New(@, MapObject(entries))]
    ELSE IF keys[i] \notin DOMAIN prog[name]
    THEN StoreStateMap(run, prog, name, keys, i + 1, entries)
    ELSE LET stored == StoreValue(run, prog, name, prog[name][keys[i]])
         IN  StoreStateMap([run EXCEPT !.objects = stored.objects], prog,
                 name, keys, i + 1,
                 Append(entries, [key   |-> Ref(KeyAt(run, name, keys[i])),
                                  value |-> stored.slot]))

\* The @table state, the one Map whose order of insertion the value keeps.
RECURSIVE StoreTableState(_, _, _)
StoreTableState(run, prog, entries) ==
    IF Len(entries) = Len(prog.table)
    THEN [run EXCEPT !.objects = New(@, MapObject(entries))]
    ELSE LET entry == prog.table[Len(entries) + 1]
             stored == StoreValue(run, prog, "table", entry.value)
         IN  StoreTableState([run EXCEPT !.objects = stored.objects], prog,
                 Append(entries,
                        [key   |-> Ref(KeyAt(run, "table", entry.key)),
                         value |-> stored.slot]))

\* A state set: the Set of the members among keys.
StoreStateSet(run, name, members, keys) ==
    LET RECURSIVE among(_)
        among(i) == IF i > Len(keys) THEN <<>>
                    ELSE (IF keys[i] \in members
                          THEN <<Ref(KeyAt(run, name, keys[i]))>> ELSE <<>>)
                         \o among(i + 1)
    IN  [run EXCEPT !.objects = New(@, SetObject(among(1)))]

StateMapNames ==
    <<"primaryKey", "references", "uuid", "compositeUnique", "check",
      "indexDef", "foreignKeyDef", "minValue", "maxValue", "visibility",
      "columnVisibility">>

StateSetNames == <<"pk", "junction", "createdAt", "updatedAt", "unique">>

\* The Map or Set stored last is the one of state key name.
Keyed(run, name) ==
    [run EXCEPT !.states = [k \in DOMAIN run.states \cup {name} |->
                               IF k = name THEN Ref(Len(run.objects))
                               ELSE run.states[k]]]

\* The state maps and sets of names that are not stored yet.
RECURSIVE StoreStates(_, _, _)
StoreStates(run, prog, names) ==
    IF \A n \in 1..Len(names) : names[n] \in DOMAIN run.states THEN run
    ELSE LET name == names[CHOOSE n \in 1..Len(names) :
                              /\ names[n] \notin DOMAIN run.states
                              /\ \A k \in 1..(n - 1) :
                                     names[k] \in DOMAIN run.states]
             keys == IF name \in ModelStateNames THEN ModelKeys(prog.models)
                     ELSE PropKeys(prog.models, 1)
         IN  StoreStates(
                 Keyed(IF \E k \in 1..Len(StateSetNames) :
                              StateSetNames[k] = name
                       THEN StoreStateSet(run, name, prog[name], keys)
                       ELSE StoreStateMap(run, prog, name, keys, 1, <<>>),
                       name),
                 prog, names)

\* The object whose stateMap(key) and stateSet(key) give the Map or Set of
\* a state key.
ProgramObject(run) == New(run.objects, Object(run.states))

\* The program: its models, the @table state and the other states.
StoreProgram(h, prog) ==
    ProgramObject(
        StoreStates(
            Keyed(StoreTableState(
                      StoreModels([objects |-> h, models |-> <<>>,
                                   props |-> <<>>, states |-> <<>>],
                                  prog.models),
                      prog, <<>>),
                  "table"),
            prog, StateMapNames \o StateSetNames))

(***************************************************************************)
(* buildIR on the stored program.  prog is the record of the addresses of  *)
(* the state maps and sets (the constants tableState ... visibilityState   *)
(* of the function) and a run is [objects, seen, at, items]: the store as  *)
(* the call has left it so far, the names held by seenEnums, the addresses *)
(* held by the local constants of the function (tables, enums, fields,     *)
(* pkColumns, field, ...) and the elements of the array that a map call is *)
(* building.                                                               *)
(***************************************************************************)
\* An allocation by the call.
Alloc(run, object) == [run EXCEPT !.objects = New(@, object)]

\* const name = the object allocated last.
Bind(run, name) ==
    [run EXCEPT !.at = [k \in DOMAIN run.at \cup {name} |->
                           IF k = name THEN Len(run.objects)
                           ELSE run.at[k]]]

\* An object literal: props are the properties whose value was read before,
\* and property k of locals holds the object of the local constant
\* locals[k].
ObjectLiteral(run, props, locals) ==
    Alloc(run, Object([k \in DOMAIN props \cup DOMAIN locals |->
                          IF k \in DOMAIN locals THEN Ref(run.at[locals[k]])
                          ELSE props[k]]))

\* list.push(the object allocated last), list a local constant.
PushNewest(run, list) ==
    [run EXCEPT !.objects = PushAt(@, run.at[list], Ref(Len(run.objects)))]

\* list.push(name), list and name local constants.
PushLocal(run, list, name) ==
    [run EXCEPT !.objects = PushAt(@, run.at[list], Ref(run.at[name]))]

\* name.key = the object allocated last, name a local constant.
AssignNewest(run, name, key) ==
    [run EXCEPT !.objects[run.at[name]].fields[key] = Some(Len(run.objects))]

\* The object allocated last is the next element of the array of a map.
Item(run) == [run EXCEPT !.items = Append(@, Ref(Len(run.objects)))]

\* return the object allocated last.
Returning(run) ==
    [objects |-> run.objects, threw |-> FALSE, at |-> Len(run.objects)]

\* resolveFieldType's result: an object literal; the values of an enum are
\* the array that map returns.
StoreFieldType(run, fieldType) ==
    IF fieldType.kind = "enum"
    THEN ObjectLiteral(
             Bind(Alloc(run, Array([k \in 1..Len(fieldType.values) |->
                                       Prim(fieldType.values[k])])),
                  "values"),
             [kind     |-> Prim(fieldType.kind),
              enumName |-> Prim(fieldType.enumName)],
             [values |-> "values"])
    ELSE Alloc(run, Literal(fieldType))

\* enums.push({ name, sqlName, values: fieldType.values }): the EnumDef
\* holds the values array of the field type, the local constant type.
collectEnumAt(run, fieldType) ==
    IF fieldType.kind = "enum" /\ fieldType.enumName \notin run.seen
    THEN [PushNewest(
              Alloc(run, Object(
                  [name    |-> Prim(fieldType.enumName),
                   sqlName |-> Prim(toSnakeCase(
                                  stripEnumSuffix(fieldType.enumName))),
                   values  |-> run.objects[run.at.type].fields.values])),
              "enums")
          EXCEPT !.seen = @ \cup {fieldType.enumName}]
    ELSE run

\* Faulty variant: field.uuid = uuidMeta, the object of the @uuid state.
fieldUuidAtShared(run, uuidMeta) ==
    IF IsRef(uuidMeta)
    THEN [run EXCEPT !.objects[run.at.field].fields.uuid = Some(uuidMeta.at)]
    ELSE run

\* field.uuid = { encoding, autoGenerate }, when there is a uuid spec.
fieldUuidAt(run, uuidMeta) ==
    IF IsRef(uuidMeta)
    THEN AssignNewest(
             Alloc(run, Object(
                 [encoding     |-> run.objects[uuidMeta.at].fields.encoding,
                  autoGenerate |->
                      run.objects[uuidMeta.at].fields.autoGenerate])),
             "field", "uuid")
    ELSE run

\* field.references = { tableName, fieldName }, when the referenced
\* property has an owning model that is a key of the @table state.
fieldReferencesAt(run, prog, refTarget) ==
    LET h == run.objects
        refModel == IF IsRef(refTarget) THEN h[refTarget.at].fields.model
                    ELSE Undefined
        refTableMeta == IF IsRef(refModel)
                        THEN GetAt(h, prog.table.at, Ref(refModel.at))
                        ELSE Undefined
    IN  IF IsRef(refTableMeta)
        THEN AssignNewest(
                 Alloc(run, Object(
                     [tableName |-> h[refTableMeta.at].fields.name,
                      fieldName |-> h[refTarget.at].fields.name])),
                 "field", "references")
        ELSE run

\* field.constraints = {} and the assignments of its keys.
fieldConstraintsAt(run, constraints) ==
    IF constraints # <<>>
    THEN AssignNewest(Alloc(run, Literal(constraints[1])),
                      "field", "constraints")
    ELSE run

\* One entry [propName, prop] of model.properties.  The states of the
\* property are read first; the field literal is allocated with the
\* properties of lines 141-148, and uuid, references and constraints are
\* assigned to it afterwards.
buildFieldAt(run, prog, entry) ==
    LET h == run.objects
        propName == entry.key.at
        modelProp == h[entry.value.at].fields
        key == Ref(entry.value.at)
        uuidMeta == GetAt(h, prog.uuid.at, key)
        vis == Opt(GetAt(h, prog.columnVisibility.at, key))
        fieldType == resolveFieldType(
                         [type |-> Deep(h, modelProp.type.at)],
                         IF IsRef(uuidMeta) THEN <<Deep(h, uuidMeta.at)>>
                         ELSE <<>>)
        listed == IF HasAt(h, prog.pk.at, key)
                  THEN [run EXCEPT !.objects =
                           PushAt(@, run.at.pkColumns, Prim(propName))]
                  ELSE run
        typed == collectEnumAt(Bind(StoreFieldType(listed, fieldType),
                                    "type"),
                               fieldType)
        field == Bind(ObjectLiteral(typed,
                    [name         |-> Prim(propName),
                     columnName   |-> Prim(toSnakeCase(propName)),
                     nullable     |-> modelProp.optional,
                     createdAt    |-> Prim(HasAt(h, prog.createdAt.at, key)),
                     updatedAt    |-> Prim(HasAt(h, prog.updatedAt.at, key)),
                     uuid         |-> Undefined,
                     references   |-> Undefined,
                     constraints  |-> Undefined,
                     visibility   |-> Prim(IF vis # <<>> /\ vis[1] # <<>>
                                           THEN vis ELSE <<>>),
                     defaultValue |-> Prim(IF modelProp.default.at # <<>>
                                           THEN extractDefaultValue(
                                                    modelProp.default.at[1])
                                           ELSE <<>>)],
                    [type |-> "type"]),
                    "field")
        assigned == fieldConstraintsAt(
                        fieldReferencesAt(
                            fieldUuidAt(field, uuidMeta), prog,
                            GetAt(h, prog.references.at, key)),
                        fieldConstraints(
                            HasAt(h, prog.unique.at, key),
                            Opt(GetAt(h, prog.check.at, key)),
                            Opt(GetAt(h, prog.minValue.at, key)),
                            Opt(GetAt(h, prog.maxValue.at, key))))
    IN  PushLocal(assigned, "fields", "field")

\* for (const [propName, prop] of model.properties), from entry j on.
RECURSIVE buildFieldsAt(_, _, _, _)
buildFieldsAt(run, prog, model, j) ==
    LET h == run.objects
        properties == h[h[model].fields.properties.at].fields
    IN  IF j > Len(properties) THEN run
        ELSE buildFieldsAt(buildFieldAt(run, prog, properties[j]),
                           prog, model, j + 1)

\* columns.map((c) => c.name): a new array of the names.
columnNamesAt(run, columns) ==
    Alloc(run, Array([k \in 1..Len(run.objects[columns].fields) |->
              run.objects[run.objects[columns].fields[k].at].fields.name]))

\* The literal that map returns for the entry at e of a model-level list.
listEntryAt(run, prog, decorator, e) ==
    LET h == run.objects
        entry == h[e].fields
        named == Bind(columnNamesAt(run, entry.columns.at), "columns")
    IN  IF decorator = "compositeUnique"
        THEN ObjectLiteral(named, [name |-> entry.name],
                           [columns |-> "columns"])
        ELSE IF decorator = "indexDef"
        THEN ObjectLiteral(named, [name   |-> entry.name,
                                   unique |-> entry.unique],
                           [columns |-> "columns"])
        ELSE LET foreignColumns == h[entry.foreignColumns.at].fields
                 foreignModel == IF foreignColumns # <<>>
                                 THEN h[foreignColumns[1].at].fields.model
                                 ELSE Undefined
                 foreignTableMeta ==
                     IF IsRef(foreignModel)
                     THEN GetAt(h, prog.table.at, Ref(foreignModel.at))
                     ELSE Undefined
             IN  ObjectLiteral(
                     Bind(columnNamesAt(named, entry.foreignColumns.at),
                          "foreignColumns"),
                     [name         |-> entry.name,
                      foreignTable |-> IF IsRef(foreignTableMeta)
                                       THEN h[foreignTableMeta.at].fields.name
                                       ELSE Prim(<<>>)],
                     [columns        |-> "columns",
                      foreignColumns |-> "foreignColumns"])

\* The literals of the entries of list from position k on, then the new
\* array that holds them.
RECURSIVE mapEntriesAt(_, _, _, _, _)
mapEntriesAt(run, prog, decorator, list, k) ==
    IF ~IsRef(list) \/ k > Len(run.objects[list.at].fields)
    THEN Alloc(run, Array(run.items))
    ELSE mapEntriesAt(
             Item(listEntryAt(run, prog, decorator,
                              run.objects[list.at].fields[k].at)),
             prog, decorator, list, k + 1)

\* (state.get(model) ?? []).map(...), state the state map of decorator.
mapListAt(run, prog, decorator, model) ==
    mapEntriesAt([run EXCEPT !.items = <<>>], prog, decorator,
                 GetAt(run.objects, prog[decorator].at, Ref(model)), 1)

\* primaryKey: { tableName, columns: pkColumns, isComposite }.
primaryKeyAt(run, tableName) ==
    ObjectLiteral(run,
        [tableName   |-> tableName,
         isComposite |-> Prim(isComposite(
                            run.objects[run.at.pkColumns].fields))],
        [columns |-> "pkColumns"])

\* One entry [target, meta] of the @table state.
buildTableAt(run, prog, entry) ==
    LET h == run.objects
        model == entry.key.at
        tableMeta == h[entry.value.at].fields
        pkMeta == GetAt(h, prog.primaryKey.at, Ref(model))
    IN  IF h[model].fields.kind.at # "Model" \/ ~IsRef(pkMeta) THEN run
        ELSE LET tableName == h[pkMeta.at].fields.tableName
                 isJunction == Prim(HasAt(h, prog.junction.at, Ref(model)))
                 started == Bind(Alloc(Bind(Alloc(run, Array(<<>>)),
                                            "fields"),
                                       Array(<<>>)),
                                 "pkColumns")
                 built == buildFieldsAt(started, prog, model, 1)
                 uniques == Bind(mapListAt(built, prog, "compositeUnique",
                                           model),
                                 "uniqueConstraints")
                 indexes == Bind(mapListAt(uniques, prog, "indexDef", model),
                                 "indexes")
                 foreignKeys == Bind(mapListAt(indexes, prog,
                                               "foreignKeyDef", model),
                                     "foreignKeys")
                 keyed == Bind(primaryKeyAt(foreignKeys, tableName),
                               "primaryKey")
             IN  PushNewest(
                     ObjectLiteral(keyed,
                         [name       |-> tableMeta.name,
                          service    |-> tableMeta.service,
                          tableName  |-> tableName,
                          isJunction |-> isJunction],
                         [primaryKey        |-> "primaryKey",
                          fields            |-> "fields",
                          foreignKeys       |-> "foreignKeys",
                          indexes           |-> "indexes",
                          uniqueConstraints |-> "uniqueConstraints"]),
                     "tables")

\* for (const [target, meta] of tableState), from entry i on.
RECURSIVE buildTablesAt(_, _, _)
buildTablesAt(run, prog, i) ==
    LET entries == run.objects[prog.table.at].fields
    IN  IF i > Len(entries) THEN run
        ELSE buildTablesAt(buildTableAt(run, prog, entries[i]), prog, i + 1)

\* buildIR(program), program the object at address p: the store after the
\* call and the address of the returned { tables, enums }.
buildIRAt(h, p) ==
    LET entered == [objects |-> h, seen |-> {}, at |-> [program |-> p],
                    items |-> <<>>]
        started == Bind(Alloc(Bind(Alloc(entered, Array(<<>>)), "tables"),
                              Array(<<>>)),
                        "enums")
        run == buildTablesAt(started, h[p].fields, 1)
    IN  Returning(ObjectLiteral(run, <<>>, [tables |-> "tables",
                                            enums  |-> "enums"]))

(***************************************************************************)
(* Returned objects.  The input is written to the store once; a call reads *)
(* it there and leaves the store as its allocations and writes make it,    *)
(* and the caller keeps what the call returned and may write through it.   *)
(* The variables tables and program keep the input as the caller wrote it, *)
(* for comparison: the calls read heap.objects only.                       *)
(***************************************************************************)
\* The store that holds the TableDef[] ts and the program prog.
StoreInput(ts, prog) ==
    LET withProgram(h1) ==
            LET input(h2) == [objects |-> h2, tables |-> Len(h1),
                              program |-> Len(h2)]
            IN  input(StoreProgram(h1, prog))
    IN  withProgram(StoreTables(<<>>, ts, <<>>))

\* A table with an empty name that references A: the call throws.
UnnamedTables ==
    << [name |-> <<"A">>, isJunction |-> FALSE,
        fields |-> <<NewField(1, <<>>)>>],
       [name |-> <<>>, isJunction |-> FALSE,
        fields |-> <<NewField(1, RefTo(<<"A">>))>>] >>

\* Two tables with every kind of state: the same enum on two properties, a
\* uuid, a reference to a property of the other table and one to a property
\* of no model, constraints, a visibility, a default and one model-level
\* list of each kind.
FreshProgram ==
    [DeclaredTables EXCEPT
        !.models[1].properties =
            << [PropOf(1, 1) EXCEPT !.type = EnumPool[1]],
               [PropOf(1, 2) EXCEPT !.type = ScalarType(<<"bytes">>)] >>,
        !.models[2].properties =
            << [PropOf(2, 1) EXCEPT
                   !.default = <<[shape |-> "literal", value |-> <<1>>,
                                  name  |-> <<>>]>>],
               [PropOf(2, 2) EXCEPT !.type = EnumPool[1],
                                    !.optional = TRUE] >>,
        !.pk = {<<1, 1>>, <<2, 1>>, <<2, 2>>},
        !.uuid = StateSet(NoEntries, <<1, 2>>,
                          [encoding |-> "base36", autoGenerate |-> FALSE]),
        !.references =
            StateSet(StateSet(NoEntries, <<2, 1>>,
                              [model |-> <<1>>, name |-> PropNamePool[1]]),
                     <<2, 2>>, DetachedProp),
        !.junction = {2},
        !.createdAt = {<<1, 1>>},
        !.unique = {<<2, 1>>},
        !.check = StateSet(NoEntries, <<2, 1>>, CheckPool[2]),
        !.minValue = StateSet(NoEntries, <<1, 1>>, MinValuePool[1]),
        !.columnVisibility = StateSet(NoEntries, <<1, 1>>, VisibilityPool[1]),
        !.compositeUnique =
            StateSet(NoEntries, 1,
                << [name |-> ListNamePool[1], columns |-> ColumnsPool[1]] >>),
        !.indexDef =
            StateSet(NoEntries, 2,
                << [name |-> ListNamePool[1], columns |-> ColumnsPool[2],
                    unique |-> TRUE] >>),
        !.foreignKeyDef =
            StateSet(NoEntries, 1,
                << [name |-> ListNamePool[2], columns |-> ColumnsPool[1],
                    foreignColumns |-> ForeignColumnsPool[1]] >>)]

\* The inputs of the calls: a TableDef[] and a program.
FreshInputs ==
    << [tables |-> SubSeq(FreshTables, 1, 1), program |-> DeclaredFields],
       [tables |-> SubSeq(FreshTables, 1, 2), program |-> TypedProgram],
       [tables |-> FreshTables, program |-> FreshProgram],
       [tables |-> UnnamedTables, program |-> ListedProgram] >>

InitFresh ==
    /\ \E n \in 1..Len(FreshInputs) :
           /\ tables = FreshInputs[n].tables
           /\ program = FreshInputs[n].program
    /\ graph = NoGraph
    /\ threw = FALSE
    /\ calls = 0
    /\ word = <<>>
    /\ oneName = NotDerived
    /\ ir = NotBuilt
    /\ \E stored \in {StoreInput(tables, program)} :
           heap = [objects |-> stored.objects,
                   tables  |-> stored.tables,
                   program |-> stored.program,
                   size    |-> Len(stored.objects),
                   calls   |-> <<>>,
                   touched |-> {}]
    /\ pc = Idle
    /\ code = NoCode

\* const g = buildRelationGraph(tables): the call reads the TableDef[] at
\* heap.tables and the store becomes what the call leaves, its writes to
\* the objects of the input, if it makes any, included.  The outcome is
\* recorded with the graph as it reads when it is returned.
CallGraph ==
    /\ Len(heap.calls) < MaxCalls
    /\ \E run \in {buildRelationGraphAt(heap.objects, heap.tables)} :
           heap' = [heap EXCEPT
               !.objects = run.objects,
               !.calls = Append(@,
                   [fn       |-> "buildRelationGraph",
                    threw    |-> run.threw,
                    at       |-> run.at,
                    returned |-> IF run.threw THEN NoGraph
                                 ELSE Deep(run.objects, run.at)])]
    /\ UNCHANGED <<tables, graph, threw, calls, word, oneName, program, ir,
                   pc, code>>

\* const out = buildIR(program): the same, on the program at heap.program.
CallIR ==
    /\ Len(heap.calls) < MaxCalls
    /\ \E run \in {buildIRAt(heap.objects, heap.program)} :
           heap' = [heap EXCEPT
               !.objects = run.objects,
               !.calls = Append(@,
                   [fn       |-> "buildIR",
                    threw    |-> run.threw,
                    at       |-> run.at,
                    returned |-> Deep(run.objects, run.at)])]
    /\ UNCHANGED <<tables, graph, threw, calls, word, oneName, program, ir,
                   pc, code>>

\* The calls that returned, and the objects the caller reaches from what
\* call c returned.
Returns == {c \in DOMAIN heap.calls : ~heap.calls[c].threw}

Reachable(c) == Reach(heap.objects, {heap.calls[c].at})

MarkerRelation == [kind |-> "many", name |-> <<"x">>, table |-> <<"x">>]

\* The caller: g.get(key).push({ ... }) on the graph that call c returned.
\* The caller writes once, through what one of the calls returned.
PushRelation(c, key) ==
    /\ heap.touched = {}
    /\ c \in Returns
    /\ heap.calls[c].fn = "buildRelationGraph"
    /\ IsRef(GetAt(heap.objects, heap.calls[c].at, Prim(key)))
    /\ LET h1 == New(heap.objects, Literal(MarkerRelation))
           list == GetAt(heap.objects, heap.calls[c].at, Prim(key)).at
       IN  heap' = [heap EXCEPT !.objects = PushAt(h1, list, Ref(Len(h1))),
                                !.touched = {c}]
    /\ UNCHANGED <<tables, graph, threw, calls, word, oneName, program, ir,
                   pc, code>>

\* The caller: out.enums.push({ name, sqlName, values: [] }) on the IR that
\* call c returned.
PushEnum(c) ==
    /\ heap.touched = {}
    /\ c \in Returns
    /\ heap.calls[c].fn = "buildIR"
    /\ LET h1 == New(heap.objects, Array(<<>>))
           h2 == New(h1, Object([name    |-> Prim(<<"x">>),
                                 sqlName |-> Prim(<<"x">>),
                                 values  |-> Ref(Len(h1))]))
           enums == heap.objects[heap.calls[c].at].fields.enums.at
       IN  heap' = [heap EXCEPT !.objects = PushAt(h2, enums, Ref(Len(h2))),
                                !.touched = {c}]
    /\ UNCHANGED <<tables, graph, threw, calls, word, oneName, program, ir,
                   pc, code>>

\* The caller: delete o[k] on one of the objects reached from what call c
\* returned.
DeleteProperty(c) ==
    /\ heap.touched = {}
    /\ c \in Returns
    /\ \E a \in {x \in Reachable(c) : heap.objects[x].kind = "Object"} :
           \E k \in {f \in DOMAIN heap.objects[a].fields :
                        heap.objects[a].fields[f].tag # "undefined"} :
               heap' = [heap EXCEPT !.objects[a].fields[k] = Undefined,
                                    !.touched = {c}]
    /\ UNCHANGED <<tables, graph, threw, calls, word, oneName, program, ir,
                   pc, code>>

\* The caller: list.pop() on one of the arrays, or map.delete(lastKey) on
\* one of the Maps, reached from what call c returned.
RemoveLast(c) ==
    /\ heap.touched = {}
    /\ c \in Returns
    /\ \E a \in {x \in Reachable(c) : /\ heap.objects[x].kind # "Object"
                                      /\ heap.objects[x].fields # <<>>} :
           heap' = [heap EXCEPT
                       !.objects[a].fields = SubSeq(@, 1, Len(@) - 1),
                       !.touched = {c}]
    /\ UNCHANGED <<tables, graph, threw, calls, word, oneName, program, ir,
                   pc, code>>

NextFresh ==
    \/ CallGraph
    \/ CallIR
    \/ \E c \in DOMAIN heap.calls, n \in 1..Len(FreshTables) :
           PushRelation(c, FreshTables[n].name)
    \/ \E c \in DOMAIN heap.calls : PushEnum(c)
    \/ \E c \in DOMAIN heap.calls : DeleteProperty(c)
    \/ \E c \in DOMAIN heap.calls : RemoveLast(c)

SpecFresh == InitFresh /\ [][NextFresh]_vars

(***************************************************************************)
(* The column mapper.  Generated code is text: a TLA+ string built with    *)
(* \o.  column-mapper.ts holds two implementations of mapFieldToColumn:    *)
(* the one of lines 13-106 pushes template strings and joins them, the one *)
(* of lines 112-197 composes the helpers of codegen/ast-helpers.ts.  The   *)
(* first is written here with the suffix Template, the second keeps the    *)
(* names of the source.                                                    *)
(***************************************************************************)

\* The text of a name of the model (a sequence of characters).
RECURSIVE Text(_)
Text(chars) ==
    IF chars = <<>> THEN "" ELSE Head(chars) \o Text(Tail(chars))

\* Array.prototype.join on an array of strings.
RECURSIVE join(_, _)
join(parts, separator) ==
    IF parts = <<>> THEN ""
    ELSE IF Len(parts) = 1 THEN parts[1]
         ELSE parts[1] \o separator \o join(Tail(parts), separator)

\* A faulty variant of quoted: single quotes.
quotedSingle(value) == "'" \o value \o "'"

\* quoted(value): the value between double quotes, nothing escaped.
quoted(value) == "\"" \o value \o "\""

\* fnCall(name, args).
fnCall(name, args) == name \o "(" \o join(args, ", ") \o ")"

\* chainCall(base, calls): each call is [method, args], args <<>> when the
\* call has none and <<array>> otherwise.
RECURSIVE chainCall(_, _)
chainCall(base, chain) ==
    IF chain = <<>> THEN base
    ELSE LET call == Head(chain)
             args == IF call.args # <<>> THEN join(call.args[1], ", ") ELSE ""
         IN chainCall(base \o "." \o call.method \o "(" \o args \o ")",
                      Tail(chain))

\* One key: value pair of an object literal.
objectProperty(entry) == entry[1] \o ": " \o entry[2]

\* objectLiteral(entries, {concise: true}): the entries are parsed into one
\* object expression and printed by Babel on a single line, { a: 1, b: 2 };
\* a literal value is printed as it was written.
objectLiteral(entries) ==
    IF entries = <<>> THEN "{}"
    ELSE "{ " \o join([i \in 1..Len(entries) |-> objectProperty(entries[i])],
                      ", ") \o " }"

\* The outcome of a call that may throw: the value it returns, or the
\* TypeError that leaves it.
Return(value) == [threw |-> FALSE, value |-> value]

Throw == [threw |-> TRUE]

\* isPrimaryKey(field, table), the same in both implementations.
isPrimaryKey(field, table) ==
    /\ ~table.primaryKey.isComposite
    /\ \E i \in 1..Len(table.primaryKey.columns) :
          table.primaryKey.columns[i] = field.name

\* mapBaseType of lines 57-87.
mapBaseTypeTemplate(field) ==
    LET col == Text(field.columnName)
        kind == field.type.kind
    IN IF field.uuid # <<>> THEN "base36Uuid(\"" \o col \o "\")"
       ELSE IF kind = "varchar"
       THEN "varchar(\"" \o col \o "\", { length: "
                \o Text(String([typeof |-> "number",
                                value |-> field.type.length])) \o " })"
       ELSE IF kind = "bigint"
       THEN "bigint(\"" \o col \o "\", { mode: \"number\" })"
       ELSE IF kind = "timestamp"
       THEN "timestamp(\"" \o col \o "\", { withTimezone: true })"
       ELSE IF kind = "uuid" THEN "base36Uuid(\"" \o col \o "\")"
       ELSE IF kind = "enum"
       THEN Text(field.type.enumName) \o "(\"" \o col \o "\")"
       ELSE kind \o "(\"" \o col \o "\")"

\* mapReference of lines 93-99; toTableVariableName throws on a table name
\* that is undefined or empty.
mapReference(field) ==
    IF field.references = <<>> THEN Return("")
    ELSE IF toTableVariableNameThrows(field.references[1].tableName)
    THEN Throw
    ELSE LET targetVar == toTableVariableName(field.references[1].tableName)
             targetField == field.references[1].fieldName
         IN Return(".references(() => " \o Text(targetVar) \o "."
                       \o Text(targetField) \o ")")

\* mapDefault of lines 101-106.
mapDefaultTemplate(value) ==
    IF value.typeof = "string"
    THEN ".default(\"" \o Text(value.value) \o "\")"
    ELSE ".default(" \o Text(String(value)) \o ")"

\* mapFieldToColumn of lines 13-55: the parts that are pushed, joined; the
\* call is left when mapReference throws.
mapFieldToColumnTemplate(field, table) ==
    LET hasUuid == field.uuid # <<>> /\ field.uuid[1].autoGenerate = <<TRUE>>
        stamped == field.createdAt \/ field.updatedAt
        isUnique == /\ field.constraints # <<>>
                    /\ field.constraints[1].unique = <<TRUE>>
        parts ==
            <<mapBaseTypeTemplate(field)>>
            \o (IF isPrimaryKey(field, table)
                THEN <<".primaryKey()">> ELSE <<>>)
            \o (IF hasUuid THEN <<".defaultRandom()">> ELSE <<>>)
            \o (IF ~field.nullable /\ ~isPrimaryKey(field, table)
                THEN <<".notNull()">> ELSE <<>>)
            \o (IF field.references # <<>>
                THEN <<mapReference(field).value>> ELSE <<>>)
            \o (IF stamped THEN <<".defaultNow()">> ELSE <<>>)
            \o (IF isUnique THEN <<".unique()">> ELSE <<>>)
            \o (IF field.defaultValue # <<>> /\ ~stamped
                THEN <<mapDefaultTemplate(field.defaultValue[1])>> ELSE <<>>)
    IN IF field.references # <<>> /\ mapReference(field).threw THEN Throw
       ELSE Return(join(parts, ""))

\* mapBaseType of lines 148-186.
mapBaseType(field) ==
    LET col == quoted(Text(field.columnName))
        kind == field.type.kind
    IN IF field.uuid # <<>> THEN fnCall("base36Uuid", <<col>>)
       ELSE IF kind = "varchar"
       THEN fnCall("varchar",
                   <<col,
                     objectLiteral(
                         <<<<"length",
                             Text(String([typeof |-> "number",
                                          value |-> field.type.length]))>>>>)>>)
       ELSE IF kind = "bigint"
       THEN fnCall("bigint",
                   <<col, objectLiteral(<<<<"mode", quoted("number")>>>>)>>)
       ELSE IF kind = "timestamp"
       THEN fnCall("timestamp",
                   <<col, objectLiteral(<<<<"withTimezone", "true">>>>)>>)
       ELSE IF kind = "uuid" THEN fnCall("base36Uuid", <<col>>)
       ELSE IF kind = "enum"
       THEN fnCall(Text(field.type.enumName), <<col>>)
       ELSE fnCall(kind, <<col>>)

\* mapDefault of lines 192-197.
mapDefault(value) ==
    IF value.typeof = "string" THEN quoted(Text(value.value))
    ELSE Text(String(value))

\* A call of the chain.
Method(method) == [method |-> method, args |-> <<>>]
MethodWith(method, arg) == [method |-> method, args |-> <<<<arg>>>>]

\* mapFieldToColumn of lines 112-146; the call is left when
\* toTableVariableName throws.
mapFieldToColumn(field, table) ==
    LET hasUuid == field.uuid # <<>> /\ field.uuid[1].autoGenerate = <<TRUE>>
        stamped == field.createdAt \/ field.updatedAt
        isUnique == /\ field.constraints # <<>>
                    /\ field.constraints[1].unique = <<TRUE>>
        chain ==
            (IF isPrimaryKey(field, table)
             THEN <<Method("primaryKey")>> ELSE <<>>)
            \o (IF hasUuid THEN <<Method("defaultRandom")>> ELSE <<>>)
            \o (IF ~field.nullable /\ ~isPrimaryKey(field, table)
                THEN <<Method("notNull")>> ELSE <<>>)
            \o (IF field.references # <<>>
                THEN <<MethodWith(
                         "references",
                         "() => "
                         \o Text(toTableVariableName(
                                     field.references[1].tableName))
                         \o "." \o Text(field.references[1].fieldName))>>
                ELSE <<>>)
            \o (IF stamped THEN <<Method("defaultNow")>> ELSE <<>>)
            \o (IF isUnique THEN <<Method("unique")>> ELSE <<>>)
            \o (IF field.defaultValue # <<>> /\ ~stamped
                THEN <<MethodWith("default",
                                  mapDefault(field.defaultValue[1]))>>
                ELSE <<>>)
    IN IF /\ field.references # <<>>
          /\ toTableVariableNameThrows(field.references[1].tableName)
       THEN Throw
       ELSE Return(chainCall(mapBaseType(field), chain))

(***************************************************************************)
(* The column mapper's callers.  One field and its owning table are drawn  *)
(* from the shapes a FieldDef and a TableDef can take, and both            *)
(* implementations are applied to them.                                    *)
(***************************************************************************)

\* The ten kinds of FieldType.
ColumnTypePool ==
    {[kind |-> k] : k \in {"text", "integer", "bigint", "real",
                           "doublePrecision", "boolean", "timestamp"}}
    \cup {[kind |-> "varchar", length |-> 7],
          [kind |-> "varchar", length |-> 64],
          [kind |-> "uuid", encoding |-> "base36"],
          [kind     |-> "enum",
           enumName |-> <<"s", "t", "E", "n", "u", "m">>,
           values   |-> <<<<"o", "n">>, <<"o", "f", "f">>>>]}

\* field.uuid: undefined, or a spec that asks for generation or does not.
ColumnUuidPool ==
    {<<>>,
     <<[encoding |-> "base36", autoGenerate |-> <<TRUE>>]>>,
     <<[encoding |-> "base36", autoGenerate |-> <<>>]>>}

\* table.primaryKey: on another column, on this one, composite with this one.
ColumnKeyPool ==
    {[columns |-> <<<<"k", "e", "y">>>>, isComposite |-> FALSE],
     [columns |-> <<<<"a", "I", "d">>>>, isComposite |-> FALSE],
     [columns |-> <<<<"a", "I", "d">>, <<"k", "e", "y">>>>,
      isComposite |-> TRUE]}

\* field.constraints: undefined, unique, or a bound only.
ColumnConstraintsPool ==
    {fieldConstraints(FALSE, <<>>, <<>>, <<>>),
     fieldConstraints(TRUE, <<>>, <<>>, <<>>),
     fieldConstraints(FALSE, <<>>, <<0>>, <<>>)}

\* field.defaultValue: undefined, a string, a number, a boolean.
ColumnDefaultPool ==
    << <<>>,
       <<[typeof |-> "string", value |-> <<"n", "e", "w">>]>>,
       <<[typeof |-> "number", value |-> 0]>>,
       <<[typeof |-> "number", value |-> 42]>>,
       <<[typeof |-> "boolean", value |-> TRUE]>>,
       <<[typeof |-> "boolean", value |-> FALSE]>> >>

\* field.references: undefined, a reference as buildIR writes it, one as the
\* bookstore fixture writes it (no tableName key), one to an empty name.
ColumnReferencesPool ==
    {<<>>,
     RefTo(<<"A">>),
     RefField(<<"A">>, <<"i", "d">>),
     <<[tableName |-> <<>>, fieldName |-> <<"i", "d">>]>>}

\* createdAt and updatedAt.
ColumnStampPool ==
    {[createdAt |-> FALSE, updatedAt |-> FALSE],
     [createdAt |-> TRUE, updatedAt |-> FALSE],
     [createdAt |-> FALSE, updatedAt |-> TRUE]}

ColumnField(type, uuid, nullable, refs, stamp, constraints, defaultValue) ==
    [name         |-> <<"a", "I", "d">>,
     columnName   |-> toSnakeCase(<<"a", "I", "d">>),
     type         |-> type,
     nullable     |-> nullable,
     createdAt    |-> stamp.createdAt,
     updatedAt    |-> stamp.updatedAt,
     uuid         |-> uuid,
     references   |-> refs,
     constraints  |-> constraints,
     visibility   |-> "read",
     defaultValue |-> defaultValue]

ColumnTable(key) ==
    [name |-> <<"B">>, tableName |-> <<"b", "s">>, primaryKey |-> key]

\* A field and its owning table are at hand, nothing is generated yet.
InitColumns ==
    /\ tables = <<>>
    /\ graph = NoGraph
    /\ threw = FALSE
    /\ calls = 0
    /\ word = <<>>
    /\ oneName = NotDerived
    /\ program = EmptyProgram
    /\ ir = NotBuilt
    /\ heap = NoHeap
    /\ pc = Idle
    /\ \E type \in ColumnTypePool, uuid \in ColumnUuidPool,
          nullable \in BOOLEAN, refs \in ColumnReferencesPool,
          stamp \in ColumnStampPool, constraints \in ColumnConstraintsPool,
          d \in 1..Len(ColumnDefaultPool), key \in ColumnKeyPool :
            code = [generated |-> FALSE,
                    fn        |-> "mapFieldToColumn",
                    field     |-> ColumnField(type, uuid, nullable, refs,
                                              stamp, constraints,
                                              ColumnDefaultPool[d]),
                    table     |-> ColumnTable(key)]

\* The test calls mapFieldToColumn(field, table) and compares the text.
MapFieldToColumn ==
    /\ ~code.generated
    /\ code.fn = "mapFieldToColumn"
    /\ code' = [generated |-> TRUE,
                fn        |-> "mapFieldToColumn",
                field     |-> code.field,
                table     |-> code.table,
                template  |-> mapFieldToColumnTemplate(code.field, code.table),
                composed  |-> mapFieldToColumn(code.field, code.table)]
    /\ UNCHANGED <<tables, graph, threw, calls, word, oneName, program,
                   ir, heap, pc>>

NextColumns == MapFieldToColumn

SpecColumns == InitColumns /\ [][NextColumns]_vars

(***************************************************************************)
(* The schema generator.  generateSchema(entities, enums) returns an       *)
(* import header followed by one declaration per enum and per entity.  Of  *)
(* the text, the model keeps the names: the names the header imports, and  *)
(* the names of the helpers that the declarations call.                    *)
(***************************************************************************)

\* f.constraints?.minValue !== undefined || ... maxValue ... || ... check ...
hasCheckField(f) ==
    /\ f.constraints # <<>>
    /\ \/ f.constraints[1].minValue # <<>>
       \/ f.constraints[1].maxValue # <<>>
       \/ f.constraints[1].check # <<>>

hasCheckConstraints(entity) ==
    \E j \in 1..Len(entity.fields) : hasCheckField(entity.fields[j])

needsSqlImport(entities) ==
    \E k \in 1..Len(entities) : hasCheckConstraints(entities[k])

hasUuidFields(entities) ==
    \E k \in 1..Len(entities) :
        \E j \in 1..Len(entities[k].fields) :
            entities[k].fields[j].uuid # <<>>

\* The column builders of drizzle-orm/pg-core.
ColumnBuilders ==
    {"text", "varchar", "integer", "bigint", "real", "doublePrecision",
     "boolean", "timestamp"}

\* What one field adds to the imports: nothing when it has a uuid spec,
\* else the builder of its kind, nothing for the kinds uuid and enum.
fieldImports(field) ==
    IF field.uuid # <<>> THEN {}
    ELSE IF field.type.kind \in ColumnBuilders THEN {field.type.kind}
         ELSE {}

entityImports(entity) ==
    (IF entity.primaryKey.isComposite THEN {"primaryKey"} ELSE {})
    \cup (IF hasCheckConstraints(entity) THEN {"check"} ELSE {})
    \cup (IF Len(entity.uniqueConstraints) > 0 THEN {"uniqueIndex"} ELSE {})
    \cup {IF entity.indexes[i].unique THEN "uniqueIndex" ELSE "index" :
            i \in 1..Len(entity.indexes)}
    \cup (IF Len(entity.foreignKeys) > 0 THEN {"foreignKey"} ELSE {})
    \cup UNION {fieldImports(entity.fields[j]) : j \in 1..Len(entity.fields)}

\* collectPgCoreImports(entities, enums): the names, which the code returns
\* sorted.
collectPgCoreImports(entities, enums) ==
    {"pgTable"}
    \cup UNION {entityImports(entities[k]) : k \in 1..Len(entities)}
    \cup (IF Len(enums) > 0 THEN {"pgEnum"} ELSE {})

\* generateImports(entities, enums): the names of the import lines.
generateImports(entities, enums) ==
    collectPgCoreImports(entities, enums)
    \cup (IF needsSqlImport(entities) THEN {"sql"} ELSE {})
    \cup (IF hasUuidFields(entities) THEN {"base36Uuid"} ELSE {})

\* The helper that mapBaseType calls for a field; a column of kind enum
\* calls the enum that is declared in the same file.
mapBaseTypeCalls(field) ==
    IF field.uuid # <<>> THEN {"base36Uuid"}
    ELSE IF field.type.kind = "uuid" THEN {"base36Uuid"}
    ELSE IF field.type.kind = "enum" THEN {}
    ELSE {field.type.kind}

\* generateColumns(entity): every field is mapped by mapFieldToColumn, which
\* may throw.
generateColumnsCalls(entity) ==
    IF \E j \in 1..Len(entity.fields) :
           mapFieldToColumn(entity.fields[j], entity).threw
    THEN Throw
    ELSE Return(UNION {mapBaseTypeCalls(entity.fields[j]) :
                          j \in 1..Len(entity.fields)})

\* The helpers of the checks of one field in generateTableExtras.
fieldCheckCalls(field) ==
    IF /\ field.constraints # <<>>
       /\ \/ field.constraints[1].minValue # <<>>
          \/ field.constraints[1].maxValue # <<>>
          \/ (/\ field.constraints[1].check # <<>>
              /\ field.constraints[1].check[1] # <<>>)
    THEN {"check", "sql"} ELSE {}

\* generateTableExtras(entity); toTableVariableName(fk.foreignEntity) throws
\* on a foreign key whose foreignEntity is undefined or empty.
generateTableExtrasCalls(entity) ==
    IF \E i \in 1..Len(entity.foreignKeys) :
           toTableVariableNameThrows(entity.foreignKeys[i].foreignEntity)
    THEN Throw
    ELSE Return(
        (IF entity.primaryKey.isComposite THEN {"primaryKey"} ELSE {})
        \cup UNION {fieldCheckCalls(entity.fields[j]) :
                        j \in 1..Len(entity.fields)}
        \cup (IF Len(entity.uniqueConstraints) > 0
              THEN {"uniqueIndex"} ELSE {})
        \cup {IF entity.indexes[i].unique THEN "uniqueIndex" ELSE "index" :
                i \in 1..Len(entity.indexes)}
        \cup (IF Len(entity.foreignKeys) > 0 THEN {"foreignKey"} ELSE {}))

\* generateTableDeclaration(entity): toTableVariableName(entity.name), then
\* the columns, then the extras; each may throw.
generateTableDeclarationCalls(entity) ==
    IF toTableVariableNameThrows(entity.name) THEN Throw
    ELSE IF generateColumnsCalls(entity).threw THEN Throw
    ELSE IF generateTableExtrasCalls(entity).threw THEN Throw
    ELSE Return({"pgTable"} \cup generateColumnsCalls(entity).value
                \cup generateTableExtrasCalls(entity).value)

\* generateSchema(entities, enums): the imported names of the header and
\* the helpers called by the declarations that follow it; nothing is
\* returned when a table declaration throws.
generateSchema(entities, enums) ==
    IF \E k \in 1..Len(entities) :
           generateTableDeclarationCalls(entities[k]).threw
    THEN Throw
    ELSE Return(
        [imported |-> generateImports(entities, enums),
         called   |-> (IF Len(enums) > 0 THEN {"pgEnum"} ELSE {})
                      \cup UNION {generateTableDeclarationCalls(
                                      entities[k]).value :
                                      k \in 1..Len(entities)}])

\* field.uuid of the fields of a schema.
SchemaUuidPool == {<<>>, <<[encoding |-> "base36", autoGenerate |-> <<TRUE>>]>>}

\* field.constraints of the fields of a schema.
SchemaConstraintsPool ==
    {fieldConstraints(FALSE, <<>>, <<>>, <<>>),
     fieldConstraints(TRUE, <<>>, <<>>, <<>>),
     fieldConstraints(FALSE, <<>>, <<0>>, <<>>),
     fieldConstraints(FALSE, <<>>, <<>>, <<9>>),
     fieldConstraints(FALSE, <<<<"x">>>>, <<>>, <<>>)}

\* entity.indexes
SchemaIndexesPool ==
    {<<>>,
     <<[name |-> <<"i">>, columns |-> <<<<"a", "I", "d">>>>,
        unique |-> FALSE]>>,
     <<[name |-> <<"u">>, columns |-> <<<<"a", "I", "d">>>>,
        unique |-> TRUE]>>}

\* entity.uniqueConstraints
SchemaUniquePool ==
    {<<>>, <<[name |-> <<"q">>, columns |-> <<<<"a", "I", "d">>>>]>>}

\* entity.foreignKeys: none, a key that names its foreignEntity, and a key as
\* buildIR writes it, with foreignTable and no foreignEntity key.
SchemaForeignKeysPool ==
    {<<>>,
     <<[name           |-> <<"f">>,
        columns        |-> <<<<"a", "I", "d">>>>,
        foreignEntity  |-> <<"A">>,
        foreignColumns |-> <<<<"i", "d">>>>]>>,
     <<[name           |-> <<"f">>,
        columns        |-> <<<<"a", "I", "d">>>>,
        foreignTable   |-> <<"A">>,
        foreignEntity  |-> undefined,
        foreignColumns |-> <<<<"i", "d">>>>]>>}

\* entity.name
SchemaNamePool == {<<"B">>, <<>>}

\* field.references of the fields of a schema.
SchemaReferencesPool ==
    {<<>>, RefTo(<<"A">>), RefField(<<"A">>, <<"i", "d">>)}

\* The enums of a schema.
SchemaEnumsPool ==
    {<<>>,
     <<[name    |-> <<"s", "t", "E", "n", "u", "m">>,
        sqlName |-> <<"s", "t">>,
        values  |-> <<<<"o", "n">>, <<"o", "f", "f">>>>]>>}

SchemaEntity(name, field, key, uniques, indexes, foreignKeys) ==
    [name              |-> name,
     tableName         |-> <<"b", "s">>,
     fields            |-> <<field>>,
     primaryKey        |-> key,
     uniqueConstraints |-> uniques,
     indexes           |-> indexes,
     foreignKeys       |-> foreignKeys]

\* The entities and the enums are at hand, nothing is generated yet.
InitSchema ==
    /\ tables = <<>>
    /\ graph = NoGraph
    /\ threw = FALSE
    /\ calls = 0
    /\ word = <<>>
    /\ oneName = NotDerived
    /\ program = EmptyProgram
    /\ ir = NotBuilt
    /\ heap = NoHeap
    /\ pc = Idle
    /\ \E type \in ColumnTypePool, uuid \in SchemaUuidPool,
          constraints \in SchemaConstraintsPool, key \in ColumnKeyPool,
          uniques \in SchemaUniquePool, indexes \in SchemaIndexesPool,
          foreignKeys \in SchemaForeignKeysPool, enums \in SchemaEnumsPool,
          name \in SchemaNamePool, refs \in SchemaReferencesPool,
          n \in 0..1 :
            code = [generated |-> FALSE,
                    fn        |-> "generateSchema",
                    entities  |->
                        SubSeq(<<SchemaEntity(
                                   name,
                                   ColumnField(type, uuid, FALSE, refs,
                                               [createdAt |-> FALSE,
                                                updatedAt |-> FALSE],
                                               constraints, <<>>),
                                   key, uniques, indexes, foreignKeys)>>,
                               1, n),
                    enums     |-> enums]

\* assemblePackage calls generateSchema(entities, enums).
GenerateSchema ==
    /\ ~code.generated
    /\ code.fn = "generateSchema"
    /\ code' = [generated |-> TRUE,
                fn        |-> "generateSchema",
                entities  |-> code.entities,
                enums     |-> code.enums,
                schema    |-> generateSchema(code.entities, code.enums)]
    /\ UNCHANGED <<tables, graph, threw, calls, word, oneName, program,
                   ir, heap, pc>>

NextSchema == GenerateSchema

SpecSchema == InitSchema /\ [][NextSchema]_vars

(***************************************************************************)
(* Properties.                                                             *)
(***************************************************************************)
\* The latest call returned a graph.
Returned == calls > 0 /\ ~threw

Keys == DOMAIN graph

\* The positions <<i, j>> of the fields that carry a reference.
RefSites ==
    UNION {{<<i, j>> : j \in {k \in 1..Len(tables[i].fields) :
                                tables[i].fields[k].references # <<>>}} :
           i \in 1..Len(tables)}

HolderAt(p) == tables[p[1]]

FieldAt(p) == tables[p[1]].fields[p[2]]

TargetAt(p) == tables[p[1]].fields[p[2]].references[1].tableName

CountOne(list, fromField, toTable) ==
    Cardinality({k \in 1..Len(list) :
        /\ list[k].kind = "one"
        /\ list[k].fromField = fromField
        /\ list[k].toTable = toTable})

CountMany(list, table) ==
    Cardinality({k \in 1..Len(list) :
        list[k].kind = "many" /\ list[k].table = table})

CountThrough(list, toTable, junctionTable) ==
    Cardinality({k \in 1..Len(list) :
        /\ list[k].kind = "many-through"
        /\ list[k].toTable = toTable
        /\ list[k].junction.table = junctionTable})

\* Reference fields named fieldName, targeting target, in the tables named
\* holder.
SitesOfField(holder, fieldName, target) ==
    {q \in RefSites : /\ HolderAt(q).name = holder
                      /\ FieldAt(q).name = fieldName
                      /\ TargetAt(q) = target}

\* Reference fields targeting target in the non-junction tables named holder.
DirectSites(holder, target) ==
    {q \in RefSites : /\ HolderAt(q).name = holder
                      /\ ~HolderAt(q).isJunction
                      /\ TargetAt(q) = target}

DistinctNames ==
    \A i, j \in 1..Len(tables) : i # j => tables[i].name # tables[j].name

\* C1 (as stated): the returned map has as many keys as the input list has
\* tables, every key is the name of a table and every table's name is a key.
C1_KeysEqualLength ==
    Returned =>
        /\ Cardinality(Keys) = Len(tables)
        /\ \A n \in Keys : \E i \in 1..Len(tables) : tables[i].name = n
        /\ \A i \in 1..Len(tables) : tables[i].name \in Keys

\* C1 (amended): the keys of the returned map are exactly the names of the
\* input tables, one key per distinct name, whatever the relation lists hold;
\* their number is the length of the input when the names are distinct.
C1_KeysAreDistinctNames ==
    Returned =>
        /\ \A n \in Keys : \E i \in 1..Len(tables) : tables[i].name = n
        /\ \A i \in 1..Len(tables) : tables[i].name \in Keys
        /\ Cardinality(Keys) <= Len(tables)
        /\ DistinctNames => Cardinality(Keys) = Len(tables)

C1_Witness ==
    /\ Returned
    /\ Len(tables) = 2
    /\ DistinctNames
    /\ \E n \in Keys : graph[n] = <<>>
    /\ \E n \in Keys : graph[n] # <<>>

\* C2: every reference field of a non-junction table X that targets Y puts one
\* OneRelation to Y in the list of X and, when Y is a table of the input, one
\* ManyRelation naming X in the list of Y: the lists hold exactly one per such
\* field.
C2_OneAndManyPerReference ==
    Returned =>
        \A p \in RefSites :
            ~HolderAt(p).isJunction =>
                /\ CountOne(graph[HolderAt(p).name], FieldAt(p).name, TargetAt(p))
                     = Cardinality(SitesOfField(HolderAt(p).name,
                                                FieldAt(p).name, TargetAt(p)))
                /\ TargetAt(p) \in Keys =>
                     CountMany(graph[TargetAt(p)], HolderAt(p).name)
                       = Cardinality(DirectSites(HolderAt(p).name, TargetAt(p)))

C2_Witness ==
    /\ Returned
    /\ DistinctNames
    /\ \E p \in RefSites :
           /\ ~HolderAt(p).isJunction
           /\ TargetAt(p) \in Keys
           /\ TargetAt(p) # HolderAt(p).name
           /\ CountMany(graph[TargetAt(p)], HolderAt(p).name) = 1
           /\ CountOne(graph[HolderAt(p).name], FieldAt(p).name, TargetAt(p)) = 1

\* C3: every reference field of a junction table X still puts its OneRelation
\* in the list of X, and puts no ManyRelation anywhere: the ManyRelations that
\* name X are those of the reference fields of non-junction tables, none when
\* the name X belongs to junction tables only.
C3_JunctionHolderGetsOneOnly ==
    Returned =>
        \A p \in RefSites :
            HolderAt(p).isJunction =>
                /\ CountOne(graph[HolderAt(p).name], FieldAt(p).name, TargetAt(p))
                     = Cardinality(SitesOfField(HolderAt(p).name,
                                                FieldAt(p).name, TargetAt(p)))
                /\ \A y \in Keys :
                     CountMany(graph[y], HolderAt(p).name)
                       = Cardinality(DirectSites(HolderAt(p).name, y))

C3_Witness ==
    /\ Returned
    /\ DistinctNames
    /\ \E p \in RefSites :
           /\ HolderAt(p).isJunction
           /\ TargetAt(p) \in Keys
           /\ TargetAt(p) # HolderAt(p).name
           /\ CountOne(graph[HolderAt(p).name], FieldAt(p).name, TargetAt(p)) = 1
           /\ \A y \in Keys : CountMany(graph[y], HolderAt(p).name) = 0

\* The junction tables with exactly two reference fields, and their targets.
NumRefs(i) ==
    Cardinality({j \in 1..Len(tables[i].fields) :
                    tables[i].fields[j].references # <<>>})

JunctionPairs == {i \in 1..Len(tables) : tables[i].isJunction /\ NumRefs(i) = 2}

FirstRef(i) ==
    LET js == {j \in 1..Len(tables[i].fields) :
                  tables[i].fields[j].references # <<>>}
    IN  tables[i].fields[CHOOSE j \in js : \A k \in js : j <= k]

SecondRef(i) ==
    LET js == {j \in 1..Len(tables[i].fields) :
                  tables[i].fields[j].references # <<>>}
    IN  tables[i].fields[CHOOSE j \in js : \A k \in js : j >= k]

TargetA(i) == FirstRef(i).references[1].tableName

TargetB(i) == SecondRef(i).references[1].tableName

\* C4 (as stated): a junction J with exactly two reference fields targeting
\* tables A and B of the input (other than J itself) gives A exactly one
\* ManyThroughRelation to B through J, and B exactly one to A through J.
C4_ExactlyOneThroughEachSide ==
    Returned =>
        \A i \in JunctionPairs :
            (/\ TargetA(i) \in Keys /\ TargetB(i) \in Keys
             /\ tables[i].name \notin {TargetA(i), TargetB(i)}) =>
                /\ CountThrough(graph[TargetA(i)], TargetB(i), tables[i].name) = 1
                /\ CountThrough(graph[TargetB(i)], TargetA(i), tables[i].name) = 1

\* C4 (amended): each junction with exactly two reference fields, to A and
\* to B, puts one ManyThroughRelation to B in the list of A and one to A in
\* the list of B; a list holds exactly these: one when A and B differ and no
\* other junction of that name links them, two when A and B are the same
\* table.
C4_OneThroughPerJunctionAndSide ==
    Returned =>
        \A a \in Keys, b \in Keys, i \in 1..Len(tables) :
            CountThrough(graph[a], b, tables[i].name)
              = Cardinality({q \in JunctionPairs :
                    /\ tables[q].name = tables[i].name
                    /\ TargetA(q) = a /\ TargetB(q) = b})
                + Cardinality({q \in JunctionPairs :
                    /\ tables[q].name = tables[i].name
                    /\ TargetA(q) = b /\ TargetB(q) = a})

C4_Witness ==
    /\ Returned
    /\ DistinctNames
    /\ \E i \in JunctionPairs :
           /\ TargetA(i) \in Keys /\ TargetB(i) \in Keys
           /\ TargetA(i) # TargetB(i)
           /\ CountThrough(graph[TargetA(i)], TargetB(i), tables[i].name) = 1
           /\ CountThrough(graph[TargetB(i)], TargetA(i), tables[i].name) = 1

\* C5: every ManyThroughRelation of the graph comes from a junction table
\* with exactly two reference fields, the two its junction names; a junction
\* with 0, 1, 3 or more reference fields contributes none, on either side.
C5_ThroughOnlyFromPairs ==
    Returned =>
        \A y \in Keys :
            \A k \in 1..Len(graph[y]) :
                graph[y][k].kind = "many-through" =>
                    \E i \in JunctionPairs :
                        /\ tables[i].name = graph[y][k].junction.table
                        /\ {FirstRef(i).name, SecondRef(i).name}
                             = {graph[y][k].junction.fromField,
                                graph[y][k].junction.toField}

C5_Witness ==
    /\ Returned
    /\ DistinctNames
    /\ \E i \in 1..Len(tables) :
           /\ tables[i].isJunction
           /\ NumRefs(i) = 3
           /\ \A j \in 1..Len(tables[i].fields) :
                  tables[i].fields[j].references # <<>> =>
                      tables[i].fields[j].references[1].tableName \in Keys
           /\ \A y \in Keys : \A k \in 1..Len(graph[y]) :
                  graph[y][k].kind # "many-through"

\* C6: deriveOneRelationName(s) is s without its last two characters when
\* they are "I" then "d", exactly as written and once only, and s itself
\* otherwise.
C6_StripsOneTrailingId ==
    oneName # NotDerived =>
        IF /\ Len(word) >= 2
           /\ word[Len(word) - 1] = "I"
           /\ word[Len(word)] = "d"
        THEN oneName \o <<"I", "d">> = word
        ELSE oneName = word

C6_Witness ==
    /\ word = <<"I", "d", "I", "d">>
    /\ oneName = <<"I", "d">>

Vowels == {"a", "e", "i", "o", "u", "A", "E", "I", "O", "U"}

IsConsonant(c) ==
    /\ \E k \in 1..26 : UpperLetters[k] = c \/ LowerLetters[k] = c
    /\ c \notin Vowels

LowerFirst(n) == <<toLowerCase(n[1])>> \o SubSeq(n, 2, Len(n))

EndsIn(w, suffix) ==
    /\ Len(w) >= Len(suffix)
    /\ \A k \in 1..Len(suffix) : w[Len(w) - Len(suffix) + k] = suffix[k]

AddEs(w) ==
    \/ EndsIn(w, <<"s">>) \/ EndsIn(w, <<"s", "h">>) \/ EndsIn(w, <<"c", "h">>)
    \/ EndsIn(w, <<"x">>) \/ EndsIn(w, <<"z">>)

\* The three rules as the claim words them: consonant + "y".
StatedPlural(w) ==
    IF Len(w) >= 2 /\ w[Len(w)] = "y" /\ IsConsonant(w[Len(w) - 1])
    THEN SubSeq(w, 1, Len(w) - 1) \o <<"i", "e", "s">>
    ELSE IF AddEs(w) THEN w \o <<"e", "s">> ELSE w \o <<"s">>

\* C7: the name of every ManyRelation (of its holder table) and
\* of every ManyThroughRelation (of its target table) is the table name with
\* its first character lower-cased, pluralized: consonant + "y" -> "ies",
\* s/sh/ch/x/z -> + "es", otherwise + "s".
C7_NamesFollowStatedRules ==
    Returned =>
        \A y \in Keys :
            \A k \in 1..Len(graph[y]) :
                /\ graph[y][k].kind = "many" =>
                     graph[y][k].name = StatedPlural(LowerFirst(graph[y][k].table))
                /\ graph[y][k].kind = "many-through" =>
                     graph[y][k].name = StatedPlural(LowerFirst(graph[y][k].toTable))

\* C8: any two calls of buildRelationGraph on the same TableDef[] end the
\* same way (both return or both throw), and the graphs they return are
\* deep-equal at the moment each is returned: same keys, same relation
\* lists in the same order, whatever the caller has done in between to the
\* graph of the earlier call.
C8_SecondCallDeepEqual ==
    \A c, d \in DOMAIN heap.calls :
        (/\ heap.calls[c].fn = "buildRelationGraph"
         /\ heap.calls[d].fn = "buildRelationGraph")
        => /\ heap.calls[c].threw = heap.calls[d].threw
           /\ heap.calls[c].returned = heap.calls[d].returned

\* Two calls that returned: the caller has pushed a relation on a list of
\* the first graph before the second call was made, the second graph is
\* another Map, and a list of the returned graphs holds two relations.
C8_Witness ==
    /\ Len(heap.calls) = 2
    /\ heap.touched = {1}
    /\ \A c \in {1, 2} : /\ heap.calls[c].fn = "buildRelationGraph"
                         /\ ~heap.calls[c].threw
    /\ heap.calls[1].at # heap.calls[2].at
    /\ \E n \in DOMAIN heap.calls[2].returned :
           /\ Len(heap.calls[2].returned[n]) >= 2
           /\ Len(Deep(heap.objects, heap.calls[1].at)[n])
                  = Len(heap.calls[1].returned[n]) + 1
           /\ Deep(heap.objects, heap.calls[2].at)[n]
                  = heap.calls[1].returned[n]

\* C9: buildRelationGraph never throws, whatever the names.
C9_NeverThrows == calls > 0 => ~threw

\* The input with every dangling reference removed.
WithoutDangling(ts) ==
    [i \in 1..Len(ts) |->
        [name |-> ts[i].name,
         isJunction |-> ts[i].isJunction,
         fields |-> [j \in 1..Len(ts[i].fields) |->
            LET f == ts[i].fields[j]
            IN  IF f.references # <<>>
                   /\ \A k \in 1..Len(ts) : ts[k].name # f.references[1].tableName
                THEN [name |-> f.name, nullable |-> f.nullable,
                      references |-> <<>>]
                ELSE f]]]

\* C10: a reference whose target is no table of the input has no effect: the
\* graph is the one returned for the input without that reference.
C10_DanglingHasNoEffect ==
    Returned => graph = buildRelationGraph(WithoutDangling(tables)).graph

\* What the reference fields of tables[i], from field j on, contribute to the
\* list of key y, in field order: the OneRelation when tables[i] is named y,
\* then the ManyRelation when the field of a non-junction table targets y.
RECURSIVE FieldContributions(_, _, _)
FieldContributions(y, i, j) ==
    IF j > Len(tables[i].fields) THEN <<>>
    ELSE LET field == tables[i].fields[j]
             one == IF hasReferences(field) /\ tables[i].name = y
                    THEN <<OneRelation(tables[i], field)>> ELSE <<>>
             many == IF /\ hasReferences(field)
                        /\ ~tables[i].isJunction
                        /\ field.references[1].tableName = y
                     THEN <<ManyRelation(tables[i])>> ELSE <<>>
         IN  one \o many \o FieldContributions(y, i, j + 1)

\* The same over the tables from tables[i] on, in input order.
RECURSIVE ReferenceContributions(_, _)
ReferenceContributions(y, i) ==
    IF i > Len(tables) THEN <<>>
    ELSE FieldContributions(y, i, 1) \o ReferenceContributions(y, i + 1)

\* What the junctions with two reference fields, from tables[i] on, contribute
\* to the list of key y, in input order: first field's side, then the second's.
RECURSIVE JunctionContributions(_, _)
JunctionContributions(y, i) ==
    IF i > Len(tables) THEN <<>>
    ELSE LET forward == IF i \in JunctionPairs /\ TargetA(i) = y
                        THEN <<ManyThroughRelation(tables[i], FirstRef(i),
                                                   SecondRef(i))>>
                        ELSE <<>>
             backward == IF i \in JunctionPairs /\ TargetB(i) = y
                         THEN <<ManyThroughRelation(tables[i], SecondRef(i),
                                                    FirstRef(i))>>
                         ELSE <<>>
         IN  forward \o backward \o JunctionContributions(y, i + 1)

\* C11: every relation list is in insertion order: the OneRelations and
\* ManyRelations first, in the order of the tables and, within a table, of its
\* fields; the ManyThroughRelations after them, in the order of the junctions.
C11_InsertionOrder ==
    Returned =>
        \A y \in Keys :
            graph[y] = ReferenceContributions(y, 1) \o JunctionContributions(y, 1)

\* A relation of the second table's reference precedes the relations of the
\* junction that is the first table.
C11_Witness ==
    /\ Returned
    /\ DistinctNames
    /\ Len(tables) = 2
    /\ 1 \in JunctionPairs
    /\ \E y \in Keys :
           /\ Len(graph[y]) >= 3
           /\ \E k \in 1..Len(graph[y]) :
                  /\ graph[y][k].kind = "many"
                  /\ graph[y][k].table = tables[2].name
                  /\ \E l \in (k + 1)..Len(graph[y]) :
                         /\ graph[y][l].kind = "many-through"
                         /\ graph[y][l].junction.table = tables[1].name
                  /\ \E l \in 1..(k - 1) : graph[y][l].kind = "one"

KindCount(list, kind) ==
    Cardinality({k \in 1..Len(list) : list[k].kind = kind})

TableNamed(n) == bookstoreEntities[n].name

\* C13 (as stated): on the nine bookstore tables, Book has 5 relations (1
\* one, 3 many, 1 many-through to Genre), Genre has 1 (many-through to Book),
\* BookGenre has 2 (one to Book, one to Genre) and is named by no
\* ManyRelation of Book or Genre, and Edition has 3 one-relations of which
\* only translator is optional.  The targets of the fixture's references
\* being undefined for buildRelationGraph, Book gets its one-relation only.
C13_BookstoreRelations ==
    (Returned /\ tables = bookstoreEntities) =>
        LET Book == TableNamed(2)
            Genre == TableNamed(3)
            BookGenre == TableNamed(4)
            Edition == TableNamed(8)
        IN  /\ Len(graph[Book]) = 5
            /\ KindCount(graph[Book], "one") = 1
            /\ KindCount(graph[Book], "many") = 3
            /\ KindCount(graph[Book], "many-through") = 1
            /\ CountThrough(graph[Book], Genre, BookGenre) = 1
            /\ Len(graph[Genre]) = 1
            /\ CountThrough(graph[Genre], Book, BookGenre) = 1
            /\ Len(graph[BookGenre]) = 2
            /\ CountOne(graph[BookGenre], <<"b", "o", "o", "k", "I", "d">>,
                        Book) = 1
            /\ CountOne(graph[BookGenre], <<"g", "e", "n", "r", "e", "I", "d">>,
                        Genre) = 1
            /\ CountMany(graph[Book], BookGenre) = 0
            /\ CountMany(graph[Genre], BookGenre) = 0
            /\ Len(graph[Edition]) = 3
            /\ KindCount(graph[Edition], "one") = 3
            /\ \A k \in 1..3 :
                   graph[Edition][k].optional
                     <=> graph[Edition][k].name
                           = <<"t", "r", "a", "n", "s", "l", "a", "t", "o", "r">>
            /\ \E k \in 1..3 : graph[Edition][k].optional

\* The entries of the @table state whose target is a model that also has
\* @primaryKey state, from entry i on, in the order of the map.
RECURSIVE Eligible(_)
Eligible(i) ==
    IF i > Len(program.table) THEN <<>>
    ELSE LET m == program.table[i].key
         IN  IF /\ program.models[m].kind = "Model"
                /\ m \in DOMAIN program.primaryKey
             THEN <<program.table[i]>> \o Eligible(i + 1)
             ELSE Eligible(i + 1)

\* The model the k-th emitted table is built from.
ModelOf(k) == Eligible(1)[k].key

PropsOf(k) == program.models[ModelOf(k)].properties

\* C14: buildIR emits one table per model that has both @table state and
\* @primaryKey state, and no other, in the iteration order of the @table
\* state; each carries the name of its @table state and one field per
\* property of its model.
C14_EmitsTablesWithPrimaryKey ==
    ir.built =>
        /\ Len(ir.tables) = Len(Eligible(1))
        /\ \A k \in 1..Len(ir.tables) :
               /\ ir.tables[k].name = Eligible(1)[k].value.name
               /\ Len(ir.tables[k].fields) = Len(PropsOf(k))
               /\ \A j \in 1..Len(PropsOf(k)) :
                      ir.tables[k].fields[j].name = PropsOf(k)[j].name

\* Two models are emitted in the order of the @table state, which is not
\* the order of their declaration.
C14_Witness ==
    /\ ir.built
    /\ Len(program.models) = 2
    /\ Len(program.table) = 2
    /\ program.table[1].key = 2
    /\ program.table[1].value.name # program.table[2].value.name
    /\ Len(ir.tables) = 2
    /\ ir.tables[1].name = program.table[1].value.name
    /\ Len(ir.tables[1].fields) = 1
    /\ ir.tables[2].fields = <<>>

\* C15: in every emitted table a field that is a primary-key member is not
\* nullable, and any other field is nullable exactly when its property is
\* optional.
C15_PkFieldsNotNullable ==
    ir.built =>
        \A k \in 1..Len(ir.tables) :
            \A j \in 1..Len(ir.tables[k].fields) :
                IF <<ModelOf(k), j>> \in program.pk
                THEN ir.tables[k].fields[j].nullable = FALSE
                ELSE ir.tables[k].fields[j].nullable = PropsOf(k)[j].optional

\* The names of the primary-key members among the properties from j on.
RECURSIVE PkNames(_, _)
PkNames(k, j) ==
    IF j > Len(PropsOf(k)) THEN <<>>
    ELSE IF <<ModelOf(k), j>> \in program.pk
         THEN <<PropsOf(k)[j].name>> \o PkNames(k, j + 1)
         ELSE PkNames(k, j + 1)

\* C19: primaryKey.columns lists the names of the properties flagged @pk,
\* in declaration order, each the name of a field of the table, and
\* isComposite tells whether they are more than one.
C19_PrimaryKeyColumns ==
    ir.built =>
        \A k \in 1..Len(ir.tables) :
            LET columns == ir.tables[k].primaryKey.columns
            IN  /\ columns = PkNames(k, 1)
                /\ \A c \in 1..Len(columns) :
                       \E j \in 1..Len(ir.tables[k].fields) :
                           ir.tables[k].fields[j].name = columns[c]
                /\ ir.tables[k].primaryKey.isComposite <=> Len(columns) > 1

C19_Witness ==
    /\ ir.built
    /\ \E k \in 1..Len(ir.tables) :
           /\ Len(ir.tables[k].primaryKey.columns) = 2
           /\ ir.tables[k].primaryKey.isComposite
    /\ \E k \in 1..Len(ir.tables) :
           /\ Len(ir.tables[k].primaryKey.columns) = 0
           /\ ~ir.tables[k].primaryKey.isComposite

\* C20: every emitted table has at least one field.
C20_FieldsNonEmpty ==
    ir.built => \A k \in 1..Len(ir.tables) : ir.tables[k].fields # <<>>

\* C17: a property with a @references target yields a field whose
\* references are the name in the @table state of the target's owning model
\* and the target's name, when there is such a model and it has @table
\* state; otherwise, and for a property without target, the field has no
\* references.
C17_ReferencesResolvedOrDropped ==
    ir.built =>
        \A k \in 1..Len(ir.tables) :
            \A j \in 1..Len(ir.tables[k].fields) :
                LET id == <<ModelOf(k), j>>
                    targets == {e \in DOMAIN program.references : e = id}
                    entity(ref) == {e \in 1..Len(program.table) :
                                       /\ ref.model # <<>>
                                       /\ program.table[e].key = ref.model[1]}
                    field == ir.tables[k].fields[j]
                IN  /\ targets = {} => field.references = <<>>
                    /\ \A e \in targets :
                         LET ref == program.references[e]
                         IN  /\ entity(ref) = {} => field.references = <<>>
                             /\ \A t \in entity(ref) :
                                  field.references =
                                     <<[tableName |-> program.table[t].value.name,
                                        fieldName |-> ref.name]>>

\* One field keeps its reference to another table; one, whose target has no
\* owning model, loses it.
C17_Witness ==
    /\ ir.built
    /\ \E k \in 1..Len(ir.tables) :
           \E j \in 1..Len(ir.tables[k].fields) :
               /\ ir.tables[k].fields[j].references # <<>>
               /\ ir.tables[k].fields[j].references[1].tableName
                    # ir.tables[k].name
    /\ \E k \in 1..Len(ir.tables) :
           \E j \in 1..Len(ir.tables[k].fields) :
               /\ <<ModelOf(k), j>> \in DOMAIN program.references
               /\ ir.tables[k].fields[j].references = <<>>

\* The fixed scalar table.
ScalarTable ==
    [n \in {"string", "int32", "int64", "float32", "float64", "boolean",
            "utcDateTime"} |->
        CASE n = "string"      -> "text"
          [] n = "int32"       -> "integer"
          [] n = "int64"       -> "bigint"
          [] n = "float32"     -> "real"
          [] n = "float64"     -> "doublePrecision"
          [] n = "boolean"     -> "boolean"
          [] n = "utcDateTime" -> "timestamp"]

\* The positions of a base-scalar chain that hold its first recognized name.
FirstRecognized(chain) ==
    {i \in 1..Len(chain) :
        /\ chain[i] \in DOMAIN ScalarTable
        /\ \A h \in 1..(i - 1) : chain[h] \notin DOMAIN ScalarTable}

\* C16: the type of an emitted field is uuid(encoding) when its property
\* has a uuid spec, whatever the declared type; otherwise, for an enum
\* declared type, the enum named lowerFirst(typeName) + "Enum" with the
\* member values (the value as a string, the member's name when it has no
\* value); otherwise, for a scalar, the entry of the fixed table for the
\* first recognized name of its base-scalar chain; text in any other case.
C16_FieldTypePrecedence ==
    ir.built =>
        \A k \in 1..Len(ir.tables) :
            \A j \in 1..Len(ir.tables[k].fields) :
                LET id == <<ModelOf(k), j>>
                    declared == PropsOf(k)[j].type
                    resolved == ir.tables[k].fields[j].type
                IN  IF id \in DOMAIN program.uuid
                    THEN resolved = [kind     |-> "uuid",
                                     encoding |-> program.uuid[id].encoding]
                    ELSE IF declared.kind = "Enum"
                    THEN resolved =
                           [kind     |-> "enum",
                            enumName |-> LowerFirst(declared.name)
                                            \o <<"E", "n", "u", "m">>,
                            values   |->
                              [v \in 1..Len(declared.members) |->
                                 IF declared.members[v].value = <<>>
                                 THEN declared.members[v].name
                                 ELSE String(declared.members[v].value[1])]]
                    ELSE IF /\ declared.kind = "Scalar"
                            /\ FirstRecognized(declared.chain) # {}
                    THEN \A i \in FirstRecognized(declared.chain) :
                             resolved = [kind |-> ScalarTable[declared.chain[i]]]
                    ELSE resolved = [kind |-> "text"]

\* An enum property with a uuid spec is emitted as uuid, and a scalar whose
\* own name is not in the table is resolved through its base scalar.
C16_Witness ==
    /\ ir.built
    /\ \E k \in 1..Len(ir.tables) :
           \E j \in 1..Len(ir.tables[k].fields) :
               /\ PropsOf(k)[j].type.kind = "Enum"
               /\ ir.tables[k].fields[j].type.kind = "uuid"
    /\ \E k \in 1..Len(ir.tables) :
           \E j \in 1..Len(ir.tables[k].fields) :
               /\ PropsOf(k)[j].type.kind = "Scalar"
               /\ Len(PropsOf(k)[j].type.chain) > 1
               /\ ir.tables[k].fields[j].type.kind = "integer"

\* The fields of the emitted tables, in iteration order.
RECURSIVE EmittedFields(_)
EmittedFields(k) ==
    IF k > Len(ir.tables) THEN <<>>
    ELSE ir.tables[k].fields \o EmittedFields(k + 1)

EnumFields ==
    {i \in 1..Len(EmittedFields(1)) : EmittedFields(1)[i].type.kind = "enum"}

\* C12: for every emitted field of an enum type the enums list holds exactly
\* one EnumDef with the field's enum name, and every EnumDef has the values
\* of the first emitted field, in iteration order, that has its name.
C12_EnumsDeduplicated ==
    ir.built =>
        LET flat == EmittedFields(1)
        IN  /\ \A i \in EnumFields :
                   Cardinality({e \in 1..Len(ir.enums) :
                       ir.enums[e].name = flat[i].type.enumName}) = 1
            /\ \A e \in 1..Len(ir.enums) :
                   \E i \in EnumFields :
                       /\ flat[i].type.enumName = ir.enums[e].name
                       /\ \A h \in EnumFields :
                              h < i =>
                                 flat[h].type.enumName # ir.enums[e].name
                       /\ ir.enums[e].values = flat[i].type.values

\* Fields of two different tables have enum types of the same derived name
\* and different values.
C12_Witness ==
    /\ ir.built
    /\ Len(ir.tables) > 1
    /\ \E j \in 1..Len(ir.tables[1].fields) :
           \E h \in 1..Len(ir.tables[2].fields) :
               /\ ir.tables[1].fields[j].type.kind = "enum"
               /\ ir.tables[2].fields[h].type.kind = "enum"
               /\ ir.tables[1].fields[j].type.enumName
                    = ir.tables[2].fields[h].type.enumName
               /\ ir.tables[1].fields[j].type.values
                    # ir.tables[2].fields[h].type.values

\* What the constraints of an emitted field have to be when checkSet tells
\* whether the check expression of the property counts as set.
ConstraintsAsSet(field, id, checkSet) ==
    LET uniqueSet == id \in program.unique
        minSet    == id \in DOMAIN program.minValue
        maxSet    == id \in DOMAIN program.maxValue
    IN  /\ field.constraints # <<>>
            <=> (uniqueSet \/ checkSet \/ minSet \/ maxSet)
        /\ field.constraints # <<>> =>
              /\ field.constraints[1].unique
                    = IF uniqueSet THEN <<TRUE>> ELSE <<>>
              /\ field.constraints[1].check
                    = IF checkSet THEN <<program.check[id]>> ELSE <<>>
              /\ field.constraints[1].minValue
                    = IF minSet THEN <<program.minValue[id]>> ELSE <<>>
              /\ field.constraints[1].maxValue
                    = IF maxSet THEN <<program.maxValue[id]>> ELSE <<>>

\* C18 as stated: the constraints of an emitted field are present exactly
\* when @unique, @check, @minValue or @maxValue was recorded for its
\* property, and hold exactly the recorded ones.
C18_ConstraintsIffRecorded ==
    ir.built =>
        \A k \in 1..Len(ir.tables) :
            \A j \in 1..Len(ir.tables[k].fields) :
                LET id == <<ModelOf(k), j>>
                IN  ConstraintsAsSet(ir.tables[k].fields[j], id,
                                     id \in DOMAIN program.check)

\* C18: the constraints of an emitted field are present exactly when its
\* property is unique, has a non-empty check expression, or has a minValue
\* or a maxValue (0 included), and hold exactly those; an empty check
\* expression counts as not set.
C18_ConstraintsIffSet ==
    ir.built =>
        \A k \in 1..Len(ir.tables) :
            \A j \in 1..Len(ir.tables[k].fields) :
                LET id == <<ModelOf(k), j>>
                IN  ConstraintsAsSet(ir.tables[k].fields[j], id,
                        /\ id \in DOMAIN program.check
                        /\ program.check[id] # <<>>)

\* One field has a minValue of 0 in its constraints, and one, whose only
\* recorded constraint is an empty check expression, has no constraints.
C18_Witness ==
    /\ ir.built
    /\ \E k \in 1..Len(ir.tables) :
           \E j \in 1..Len(ir.tables[k].fields) :
               /\ ir.tables[k].fields[j].constraints # <<>>
               /\ ir.tables[k].fields[j].constraints[1].minValue = <<0>>
               /\ ir.tables[k].fields[j].constraints[1].maxValue = <<>>
    /\ \E k \in 1..Len(ir.tables) :
           \E j \in 1..Len(ir.tables[k].fields) :
               /\ <<ModelOf(k), j>> \in DOMAIN program.check
               /\ program.check[<<ModelOf(k), j>>] = <<>>
               /\ ir.tables[k].fields[j].constraints = <<>>

\* C24: for every reference field f of a table X, the list of X holds a
\* OneRelation named deriveOneRelationName(f.name), from X.f.name to the
\* table and field f references, optional exactly when f is nullable; and
\* every OneRelation of a list is the one of such a field of a table that
\* has the list's name.
C24_OneRelationMirrorsField ==
    Returned =>
        /\ \A p \in RefSites :
               \E k \in 1..Len(graph[HolderAt(p).name]) :
                   LET rel == graph[HolderAt(p).name][k]
                   IN  /\ rel.kind = "one"
                       /\ rel.name = deriveOneRelationName(FieldAt(p).name)
                       /\ rel.fromTable = HolderAt(p).name
                       /\ rel.fromField = FieldAt(p).name
                       /\ rel.toTable = FieldAt(p).references[1].tableName
                       /\ rel.toField = FieldAt(p).references[1].fieldName
                       /\ rel.optional = FieldAt(p).nullable
        /\ \A x \in Keys :
               \A k \in 1..Len(graph[x]) :
                   graph[x][k].kind = "one" =>
                       \E p \in RefSites :
                           /\ HolderAt(p).name = x
                           /\ graph[x][k].name
                                = deriveOneRelationName(FieldAt(p).name)
                           /\ graph[x][k].fromTable = x
                           /\ graph[x][k].fromField = FieldAt(p).name
                           /\ graph[x][k].toTable
                                = FieldAt(p).references[1].tableName
                           /\ graph[x][k].toField
                                = FieldAt(p).references[1].fieldName
                           /\ graph[x][k].optional = FieldAt(p).nullable

\* A table refers to another one by a nullable and by a non-nullable field,
\* and its list holds an optional and a non-optional OneRelation.
C24_Witness ==
    /\ Returned
    /\ \E p \in RefSites, q \in RefSites :
           /\ HolderAt(p).name = HolderAt(q).name
           /\ TargetAt(p) # HolderAt(p).name
           /\ FieldAt(p).nullable
           /\ ~FieldAt(q).nullable
           /\ \E k, h \in 1..Len(graph[HolderAt(p).name]) :
                  /\ graph[HolderAt(p).name][k].kind = "one"
                  /\ graph[HolderAt(p).name][k].optional
                  /\ graph[HolderAt(p).name][h].kind = "one"
                  /\ ~graph[HolderAt(p).name][h].optional

\* The ManyThroughRelation of junction table j, seen from its reference
\* field near to its reference field far, without its name.
IsThrough(rel, j, near, far) ==
    /\ rel.kind = "many-through"
    /\ rel.fromTable = near.references[1].tableName
    /\ rel.fromField = near.references[1].fieldName
    /\ rel.toTable = far.references[1].tableName
    /\ rel.toField = far.references[1].fieldName
    /\ rel.junction = [table     |-> tables[j].name,
                       fromField |-> near.name,
                       toField   |-> far.name]

\* C25: a junction J with exactly two reference fields, in field order
\* fieldA -> (A, a) and fieldB -> (B, b), puts in the list of A the
\* ManyThroughRelation from A.a to B.b with junction {J, fieldA, fieldB},
\* and in the list of B its mirror image from B.b to A.a with junction
\* {J, fieldB, fieldA}, whenever A, respectively B, is a table of the input.
C25_ThroughAndItsMirror ==
    Returned =>
        \A j \in JunctionPairs :
            /\ TargetA(j) \in Keys =>
                  \E k \in 1..Len(graph[TargetA(j)]) :
                      IsThrough(graph[TargetA(j)][k], j,
                                FirstRef(j), SecondRef(j))
            /\ TargetB(j) \in Keys =>
                  \E k \in 1..Len(graph[TargetB(j)]) :
                      IsThrough(graph[TargetB(j)][k], j,
                                SecondRef(j), FirstRef(j))

\* A junction links two different tables whose referenced fields differ,
\* and both lists hold their side of it.
C25_Witness ==
    /\ Returned
    /\ \E j \in JunctionPairs :
           /\ TargetA(j) \in Keys
           /\ TargetB(j) \in Keys
           /\ TargetA(j) # TargetB(j)
           /\ FirstRef(j).references[1].fieldName
                # SecondRef(j).references[1].fieldName
           /\ \E k \in 1..Len(graph[TargetA(j)]) :
                  IsThrough(graph[TargetA(j)][k], j, FirstRef(j), SecondRef(j))
           /\ \E k \in 1..Len(graph[TargetB(j)]) :
                  IsThrough(graph[TargetB(j)][k], j, SecondRef(j), FirstRef(j))

\* C28: in every relation list of a returned graph the relation names are
\* pairwise distinct.
C28_RelationNamesDistinct ==
    Returned =>
        \A x \in Keys :
            \A k, h \in 1..Len(graph[x]) :
                k # h => graph[x][k].name # graph[x][h].name

\* C26: the field emitted for a property has the visibility that
\* @visibility recorded for the property, and no visibility when none was
\* recorded.
C26_VisibilityReadBack ==
    ir.built =>
        \A k \in 1..Len(ir.tables) :
            \A j \in 1..Len(ir.tables[k].fields) :
                LET id == <<ModelOf(k), j>>
                IN  ir.tables[k].fields[j].visibility
                      = IF id \in DOMAIN program.visibility
                        THEN <<program.visibility[id]>>
                        ELSE <<>>

\* C29: every reference of an emitted field names an emitted table.
C29_ClosedUnderReferences ==
    ir.built =>
        \A k \in 1..Len(ir.tables) :
            \A j \in 1..Len(ir.tables[k].fields) :
                ir.tables[k].fields[j].references # <<>> =>
                    \E t \in 1..Len(ir.tables) :
                        ir.tables[t].name
                          = ir.tables[k].fields[j].references[1].tableName

\* The three model-level state maps of a program, by decorator.
ListMaps(prog) ==
    [compositeUnique |-> prog.compositeUnique,
     indexDef        |-> prog.indexDef,
     foreignKeyDef   |-> prog.foreignKeyDef]

ListOf(prog, decorator, m) ==
    IF m \in DOMAIN ListMaps(prog)[decorator]
    THEN ListMaps(prog)[decorator][m] ELSE <<>>

\* A call of decorator on model target appends entry to the list of target
\* and leaves every other model-level list as it was.
Appends(decorator, target, entry) ==
    \A d \in DOMAIN ListMaps(program), m \in ModelIds(program) :
        ListOf(program', d, m)
          = IF d = decorator /\ m = target
            THEN Append(ListOf(program, d, m), entry)
            ELSE ListOf(program, d, m)

\* C23: every call of $compositeUnique, $indexDef or $foreignKeyDef on a
\* model appends one entry, made of the call's arguments, to the end of the
\* list stored for that model, and changes no earlier entry and no list of
\* another model or decorator; $indexDef stores unique = false when the
\* argument is omitted.  The lists being empty at first, a list holds one
\* entry per call, in call order.
C23_ListDecoratorsAccumulate ==
    [][\A m \in ModelIds(program), n \in 1..Len(ListNamePool) :
          /\ CompositeUnique(m, ListNamePool[n], ColumnsPool[n]) =>
                Appends("compositeUnique", m,
                        [name |-> ListNamePool[n], columns |-> ColumnsPool[n]])
          /\ \A u \in 1..Len(UniqueArgPool) :
                IndexDef(m, ListNamePool[n], ColumnsPool[n], UniqueArgPool[u])
                  => Appends("indexDef", m,
                        [name    |-> ListNamePool[n],
                         columns |-> ColumnsPool[n],
                         unique  |-> UniqueArgPool[u] = <<TRUE>>])
          /\ ForeignKeyDef(m, ListNamePool[n], ColumnsPool[n],
                           ForeignColumnsPool[n]) =>
                Appends("foreignKeyDef", m,
                        [name           |-> ListNamePool[n],
                         columns        |-> ColumnsPool[n],
                         foreignColumns |-> ForeignColumnsPool[n]])]_vars

\* The first model has two indexes, stored in an order that is not the
\* order of the name pool, and the second model has a composite unique
\* constraint of its own.
C23_Witness ==
    /\ 1 \in DOMAIN program.indexDef
    /\ Len(program.indexDef[1]) = 2
    /\ program.indexDef[1][1].name = ListNamePool[2]
    /\ program.indexDef[1][2].name = ListNamePool[1]
    /\ ~program.indexDef[1][1].unique
    /\ 2 \in DOMAIN program.compositeUnique
    /\ Len(program.compositeUnique[2]) = 1

\* Two slots, and two objects, hold the same.
SameSlot(s, t) == s.tag = t.tag /\ s.at = t.at

SameObject(o, p) ==
    /\ o.kind = p.kind
    /\ DOMAIN o.fields = DOMAIN p.fields
    /\ \A k \in DOMAIN o.fields :
           IF o.kind = "Map"
           THEN /\ SameSlot(o.fields[k].key, p.fields[k].key)
                /\ SameSlot(o.fields[k].value, p.fields[k].value)
           ELSE SameSlot(o.fields[k], p.fields[k])

\* C21: after any calls of buildRelationGraph and buildIR, and whatever
\* the caller has written through what they returned, (1) every object of
\* the input (the table list, every table, fields array, field and
\* reference; the program, its models, properties, types and every state
\* map and set with the values recorded in them) is as it was written
\* before the first call; (2) nothing that can be reached from a returned
\* graph or IR is an object of the input; (3) nothing can be reached from
\* what two different calls returned; and (4) a returned graph or IR that
\* the caller has not written to still reads as the function's value for
\* the input.
C21_CallsAreSideEffectFree ==
    /\ LET stored == StoreInput(tables, program).objects
       IN  \A a \in 1..heap.size : SameObject(heap.objects[a], stored[a])
    /\ \A c \in Returns : Reachable(c) \cap 1..heap.size = {}
    /\ \A c, d \in Returns : c # d => Reachable(c) \cap Reachable(d) = {}
    /\ \A c \in Returns \ heap.touched :
           IF heap.calls[c].fn = "buildRelationGraph"
           THEN Deep(heap.objects, heap.calls[c].at)
                    = buildRelationGraph(tables).graph
           ELSE Deep(heap.objects, heap.calls[c].at) = buildIR(program)

\* Two calls of buildIR on a program with a uuid property, the same enum on
\* two properties and a list of each kind: the caller has deleted the
\* properties of the uuid object of a field of the first IR, and the second
\* IR still holds the uuid with its encoding and is the IR of the program.
C21_Witness ==
    /\ Len(heap.calls) = 2
    /\ heap.touched = {1}
    /\ \A c \in {1, 2} : heap.calls[c].fn = "buildIR"
    /\ program = FreshProgram
    /\ \E a \in Reachable(1) :
           /\ heap.objects[a].kind = "Object"
           /\ DOMAIN heap.objects[a].fields = {"encoding", "autoGenerate"}
           /\ heap.objects[a].fields.encoding.tag = "undefined"
    /\ \E a \in Reachable(2) :
           /\ heap.objects[a].kind = "Object"
           /\ DOMAIN heap.objects[a].fields = {"encoding", "autoGenerate"}
           /\ heap.objects[a].fields.encoding.tag = "prim"
    /\ Deep(heap.objects, heap.calls[2].at) = buildIR(program)
    /\ Len(buildIR(program).tables) = 2
    /\ Len(buildIR(program).enums) = 1

\* The size of the input of buildRelationGraph: three loops over the
\* tables and one over the fields of every table.
GraphSize == 3 * Len(tables) + CountFields(tables)

\* The size of the input of buildIR: the entries of the @table state and,
\* for each, the properties of its model, the depth of the type hierarchy of
\* every property, and the entries of its model-level lists.
RECURSIVE ChainDepths(_)
ChainDepths(props) ==
    IF props = <<>> THEN 0
    ELSE (IF Head(props).type.kind = "Scalar"
          THEN Len(Head(props).type.chain) ELSE 0)
         + ChainDepths(Tail(props))

RECURSIVE IRSize(_)
IRSize(i) ==
    IF i > Len(program.table) THEN 0
    ELSE LET m == program.table[i].key
         IN  1 + Len(program.models[m].properties)
               + ChainDepths(program.models[m].properties)
               + ListEntries(program, m)
               + IRSize(i + 1)

\* C27: a call of buildRelationGraph or of buildIR returns; until then it
\* has executed no more loop bodies and resolveScalarType calls than the
\* size of its input, and resolveScalarType is never deeper in a chain than
\* the chain is long.
C27_CallsTerminate ==
    /\ [](pc.fn = "buildRelationGraph" => pc.steps <= GraphSize)
    /\ [](pc.fn = "buildIR" => pc.steps <= IRSize(1))
    /\ [](pc.fn = "buildIR" /\ pc.loop = "scalar" =>
              pc.d <= Len(StepProps[pc.j].type.chain))
    /\ (pc.fn = "buildRelationGraph" ~>
           (pc.fn = "returned" /\ pc.loop = "buildRelationGraph"))
    /\ (pc.fn = "buildIR" ~> (pc.fn = "returned" /\ pc.loop = "buildIR"))

\* buildIR has returned for a program with scalars that have base scalars,
\* after more steps than the @table state has entries.
C27_Witness ==
    /\ pc.fn = "returned"
    /\ pc.loop = "buildIR"
    /\ program = TypedProgram
    /\ ir.built
    /\ pc.steps > Len(program.table) + Len(program.models[1].properties)

\* C22: for every field and owning table, the mapFieldToColumn that composes
\* the codegen helpers returns the same text, character for character, as
\* the mapFieldToColumn that joins template strings; on a field whose
\* reference names no table, where toTableVariableName throws, both throw.
C22_MappersAgree ==
    code.generated /\ code.fn = "mapFieldToColumn" =>
        /\ code.composed.threw = code.template.threw
        /\ ~code.composed.threw => code.composed.value = code.template.value

\* A varchar column with an object argument, a reference, a unique
\* constraint and a string default has been mapped.
C22_Witness ==
    /\ code.generated
    /\ code.fn = "mapFieldToColumn"
    /\ code.field.type = [kind |-> "varchar", length |-> 64]
    /\ code.field.uuid = <<>>
    /\ code.field.references # <<>>
    /\ code.field.constraints # <<>>
    /\ code.field.constraints[1].unique = <<TRUE>>
    /\ code.field.defaultValue # <<>>
    /\ code.field.defaultValue[1].typeof = "string"
    /\ ~code.field.nullable
    /\ ~code.field.createdAt /\ ~code.field.updatedAt
    /\ ~isPrimaryKey(code.field, code.table)
    /\ ~code.composed.threw
    /\ code.composed.value =
          "varchar(\"a_id\", { length: 64 }).notNull()"
          \o ".references(() => as.id).unique().default(\"new\")"

\* C30: every helper that the declarations of a generated schema call (a
\* column builder, base36Uuid, pgEnum, primaryKey, check, sql, index,
\* uniqueIndex, foreignKey, pgTable) is a name that its header imports.
C30_ImportsCoverCalls ==
    code.generated /\ code.fn = "generateSchema" /\ ~code.schema.threw =>
        code.schema.value.called \subseteq code.schema.value.imported

====
